---- MODULE Spec2Model ----
(***************************************************************************)
(* A model of the mini-redis server: the RESP frame codec, the command     *)
(* decoder, the shared database with its expiration task, the per-         *)
(* connection handler in normal and in subscribed mode.                    *)
(*                                                                         *)
(* Bytes and strings are sequences of one-character strings.  A frame is a *)
(* record tagged by t.  Each step records the frame it read from a socket  *)
(* (read) and the bytes of the frame it wrote to one (wrote), if any.      *)
(***************************************************************************)
EXTENDS Integers, Sequences, FiniteSets, TLC

\* ---------------------------------------------------------------- bounds

\* Entry ids handed out by Db::set (next_id is a u64 in the source).
MaxId == 2
\* Capacity of a channel's broadcast queue, scaled down from the
\* broadcast::channel(1024) of db.rs so that a lagging receiver is reachable.
Capacity == 2
\* Permits of the semaphore of connections, scaled down from the 255 of
\* server.rs so that a listener out of permits is reachable.
MAX_CONNECTIONS == 4

\* ------------------------------------------------------------ characters

CR == "\r"
LF == "\n"
CRLF == <<CR, LF>>

UpperChars == <<"A","B","C","D","E","F","G","H","I","J","K","L","M",
                "N","O","P","Q","R","S","T","U","V","W","X","Y","Z">>
LowerChars == <<"a","b","c","d","e","f","g","h","i","j","k","l","m",
                "n","o","p","q","r","s","t","u","v","w","x","y","z">>
DigitChars == <<"0","1","2","3","4","5","6","7","8","9">>

\* char::to_ascii_lowercase / to_ascii_uppercase on one character
LowerChar(ch) ==
    IF \E i \in 1..26 : UpperChars[i] = ch
    THEN LowerChars[CHOOSE i \in 1..26 : UpperChars[i] = ch]
    ELSE ch

UpperChar(ch) ==
    IF \E i \in 1..26 : LowerChars[i] = ch
    THEN UpperChars[CHOOSE i \in 1..26 : LowerChars[i] = ch]
    ELSE ch

\* A change of case that leaves its argument as it is: a fault the reply to
\* an unknown command, and the option of a SET, must show
KeptCase(s) == s

to_lowercase(s) == [i \in 1..Len(s) |-> LowerChar(s[i])]
to_uppercase(s) == [i \in 1..Len(s) |-> UpperChar(s[i])]

IsDigit(ch) == \E i \in 1..10 : DigitChars[i] = ch
DigitVal(ch) == (CHOOSE i \in 1..10 : DigitChars[i] = ch) - 1

\* write!(buf, "{}", value): the decimal digits of an unsigned number
RECURSIVE Decimal(_)
Decimal(n) ==
    IF n < 10 THEN <<DigitChars[n + 1]>>
    ELSE Decimal(n \div 10) \o <<DigitChars[(n % 10) + 1]>>

\* Option<T>: None is the empty sequence, Some(x) the sequence of x alone.
None == <<>>
Some(x) == <<x>>
IsSome(o) == o # <<>>
Unwrap(o) == o[1]

\* atoi::<u64>: the number the leading digits of s denote; None when s does
\* not start with a digit.

RECURSIVE AtoiFrom(_, _, _)
AtoiFrom(s, i, acc) ==
    IF i > Len(s) \/ ~IsDigit(s[i]) THEN acc
    ELSE AtoiFrom(s, i + 1, acc * 10 + DigitVal(s[i]))

atoi(s) ==
    IF Len(s) = 0 \/ ~IsDigit(s[1]) THEN None ELSE Some(AtoiFrom(s, 1, 0))

\* ----------------------------------------------------------------- frames

Simple(s)  == [t |-> "Simple", s |-> s]
Error(s)   == [t |-> "Error", s |-> s]
Integer(n) == [t |-> "Integer", n |-> n]
Null       == [t |-> "Null"]
Bulk(b)    == [t |-> "Bulk", b |-> b]
Array(a)   == [t |-> "Array", a |-> a]

\* Connection::write_decimal
write_decimal(value) == Decimal(value) \o CRLF

\* What stands for the bytes of a write that panics instead
Unreachable == <<"unreachable!">>

\* Connection::write_value: the bytes of one non-array frame; for an array
\* it is unreachable!()
write_value(frame) ==
    CASE frame.t = "Simple"  -> <<"+">> \o frame.s \o CRLF
      [] frame.t = "Error"   -> <<"-">> \o frame.s \o CRLF
      [] frame.t = "Integer" -> <<":">> \o write_decimal(frame.n)
      [] frame.t = "Null"    -> <<"-", "1">> \o CRLF
      [] frame.t = "Bulk"    -> <<"$">> \o write_decimal(Len(frame.b))
                                   \o frame.b \o CRLF
      [] frame.t = "Array"   -> Unreachable

RECURSIVE WriteValues(_, _)
WriteValues(arr, i) ==
    IF i > Len(arr) THEN <<>>
    ELSE write_value(arr[i]) \o WriteValues(arr, i + 1)

\* Connection::write_frame: the bytes flushed for one frame
write_frame(frame) ==
    IF frame.t = "Array"
    THEN <<"*">> \o write_decimal(Len(frame.a)) \o WriteValues(frame.a, 1)
    ELSE write_value(frame)

\* ----------------------------------------------------- the frame decoder

\* A decoder result: Ok(v) leaves the cursor at pos; the two failures of
\* frame::Error; and the panic of an unimplemented!() arm.
Ok(v, pos)  == [r |-> "ok", v |-> v, pos |-> pos]
Incomplete  == [r |-> "incomplete"]
Other       == [r |-> "error"]
Panic       == [r |-> "panic"]

\* src.remaining() for a cursor whose next byte is buf[pos]
remaining(buf, pos) == Len(buf) - pos + 1

\* frame.rs get_u8
get_u8(buf, pos) ==
    IF remaining(buf, pos) <= 0 THEN Incomplete ELSE Ok(buf[pos], pos + 1)

\* frame.rs peek_u8
peek_u8(buf, pos) ==
    IF remaining(buf, pos) <= 0 THEN Incomplete ELSE Ok(buf[pos], pos)

\* frame.rs skip
skip(buf, pos, n) ==
    IF remaining(buf, pos) < n THEN Incomplete ELSE Ok(<<>>, pos + n)

\* frame.rs get_line: the bytes up to the first "\r\n" at or after pos
get_line(buf, pos) ==
    LET ends == {i \in pos..(Len(buf) - 1) : buf[i] = CR /\ buf[i + 1] = LF}
    IN  IF ends = {} THEN Incomplete
        ELSE LET i == CHOOSE e \in ends : \A f \in ends : e <= f
             IN  Ok(SubSeq(buf, pos, i - 1), i + 2)

\* frame.rs get_decimal
get_decimal(buf, pos) ==
    LET line == get_line(buf, pos)
    IN  IF line.r # "ok" THEN line
        ELSE IF ~IsSome(atoi(line.v)) THEN Other
        ELSE Ok(Unwrap(atoi(line.v)), line.pos)

\* Frame::check: past exactly one frame, without building it
RECURSIVE check(_, _), CheckN(_, _, _)
check(buf, pos) ==
    LET b == get_u8(buf, pos)
    IN  IF b.r # "ok" THEN b
        ELSE IF b.v \in {"+", "-"} THEN
            LET l == get_line(buf, b.pos)
            IN  IF l.r # "ok" THEN l ELSE Ok(<<>>, l.pos)
        ELSE IF b.v = ":" THEN
            LET d == get_decimal(buf, b.pos)
            IN  IF d.r # "ok" THEN d ELSE Ok(<<>>, d.pos)
        ELSE IF b.v = "$" THEN
            LET p == peek_u8(buf, b.pos)
            IN  IF p.r # "ok" THEN p
                ELSE IF p.v = "-" THEN skip(buf, b.pos, 4)
                ELSE LET d == get_decimal(buf, b.pos)
                     IN  IF d.r # "ok" THEN d ELSE skip(buf, d.pos, d.v + 2)
        ELSE IF b.v = "*" THEN
            LET d == get_decimal(buf, b.pos)
            IN  IF d.r # "ok" THEN d ELSE CheckN(buf, d.pos, d.v)
        ELSE Other

CheckN(buf, pos, n) ==
    IF n = 0 THEN Ok(<<>>, pos)
    ELSE LET c == check(buf, pos)
         IN  IF c.r # "ok" THEN c ELSE CheckN(buf, c.pos, n - 1)

\* A byte that makes str::from_utf8 fail.
InvalidByte == "0xFF"

\* String::from_utf8(line): whether it is Ok
from_utf8(line) == \A k \in 1..Len(line) : line[k] # InvalidByte

\* Frame::parse: the frame at the cursor
RECURSIVE parse(_, _), ParseN(_, _, _, _)
parse(buf, pos) ==
    LET b == get_u8(buf, pos)
    IN  IF b.r # "ok" THEN b
        ELSE IF b.v = "+" THEN
            LET l == get_line(buf, b.pos)
            IN  IF l.r # "ok" THEN l
                ELSE IF ~from_utf8(l.v) THEN Other
                ELSE Ok(Simple(l.v), l.pos)
        ELSE IF b.v = "-" THEN
            LET l == get_line(buf, b.pos)
            IN  IF l.r # "ok" THEN l
                ELSE IF ~from_utf8(l.v) THEN Other
                ELSE Ok(Error(l.v), l.pos)
        ELSE IF b.v = ":" THEN
            LET d == get_decimal(buf, b.pos)
            IN  IF d.r # "ok" THEN d ELSE Ok(Integer(d.v), d.pos)
        ELSE IF b.v = "$" THEN
            LET p == peek_u8(buf, b.pos)
            IN  IF p.r # "ok" THEN p
                ELSE IF p.v = "-" THEN
                    LET l == get_line(buf, b.pos)
                    IN  IF l.r # "ok" THEN l
                        ELSE IF l.v # <<"-", "1">> THEN Other
                        ELSE Ok(Null, l.pos)
                ELSE LET d == get_decimal(buf, b.pos)
                     IN  IF d.r # "ok" THEN d
                         ELSE IF remaining(buf, d.pos) < d.v + 2 THEN Incomplete
                         ELSE Ok(Bulk(SubSeq(buf, d.pos, d.pos + d.v - 1)),
                                 d.pos + d.v + 2)
        ELSE IF b.v = "*" THEN
            LET d == get_decimal(buf, b.pos)
            IN  IF d.r # "ok" THEN d ELSE ParseN(buf, d.pos, d.v, <<>>)
        ELSE Panic

ParseN(buf, pos, n, acc) ==
    IF n = 0 THEN Ok(Array(acc), pos)
    ELSE LET f == parse(buf, pos)
         IN  IF f.r # "ok" THEN f
             ELSE ParseN(buf, f.pos, n - 1, Append(acc, f.v))

\* Connection::parse_frame on a buffer holding exactly one reply: what a
\* reader of the socket makes of the bytes of one written frame.
parse_frame(buf) ==
    LET c == check(buf, 1)
    IN  IF c.r = "incomplete" THEN [r |-> "none"]
        ELSE IF c.r # "ok" THEN c
        ELSE LET f == parse(buf, 1)
             IN  IF f.r # "ok" THEN f ELSE Ok(f.v, c.pos)

\* ------------------------------------------------------- command decoding

\* parse.rs results: a value and the index of the next part; ParseError's
\* EndOfStream and Other.
POk(v, i)   == [r |-> "ok", v |-> v, i |-> i]
EndOfStream == [r |-> "eos"]
POther      == [r |-> "other"]

\* Parse::next_string at part i
next_string(parts, i) ==
    IF i > Len(parts) THEN EndOfStream
    ELSE IF parts[i].t = "Simple" THEN POk(parts[i].s, i + 1)
    ELSE IF parts[i].t = "Bulk" THEN
        IF ~from_utf8(parts[i].b)
        THEN POther ELSE POk(parts[i].b, i + 1)
    ELSE POther

\* Parse::next_bytes at part i
next_bytes(parts, i) ==
    IF i > Len(parts) THEN EndOfStream
    ELSE IF parts[i].t = "Simple" THEN POk(parts[i].s, i + 1)
    ELSE IF parts[i].t = "Bulk" THEN POk(parts[i].b, i + 1)
    ELSE POther

\* Parse::next_int at part i
next_int(parts, i) ==
    IF i > Len(parts) THEN EndOfStream
    ELSE IF parts[i].t = "Integer" THEN POk(parts[i].n, i + 1)
    ELSE IF parts[i].t = "Simple" THEN
        IF ~IsSome(atoi(parts[i].s)) THEN POther
        ELSE POk(Unwrap(atoi(parts[i].s)), i + 1)
    ELSE IF parts[i].t = "Bulk" THEN
        IF ~IsSome(atoi(parts[i].b)) THEN POther
        ELSE POk(Unwrap(atoi(parts[i].b)), i + 1)
    ELSE POther

\* Parse::finish at part i: no part may be left
finish(parts, i) == i > Len(parts)

\* The command names Command::from_frame matches, and Command::get_name.
GetName         == <<"g","e","t">>
SetName         == <<"s","e","t">>
PublishName     == <<"p","u","b","l","i","s","h">>
SubscribeName   == <<"s","u","b","s","c","r","i","b","e">>
UnsubscribeName == <<"u","n","s","u","b","s","c","r","i","b","e">>
PingName        == <<"p","i","n","g">>

\* Duration::from_secs, in the clock's unit (milliseconds)
MillisPerSec == 1000

\* A decoded command, or the error from_frame returns.
CmdOk(cmd, i) == [ok |-> TRUE, cmd |-> cmd, i |-> i]
CmdErr        == [ok |-> FALSE]

\* Get::parse_frames
GetParseFrames(parts, i) ==
    LET key == next_string(parts, i)
    IN  IF key.r # "ok" THEN CmdErr
        ELSE CmdOk([name |-> GetName, key |-> key.v], key.i)

\* Set::parse_frames
SetParseFrames(parts, i) ==
    LET key   == next_string(parts, i)
        value == next_bytes(parts, key.i)
        opt   == next_string(parts, value.i)
        num   == next_int(parts, opt.i)
        set(expire, j) == CmdOk([name |-> SetName, key |-> key.v,
                                 value |-> value.v, expire |-> expire], j)
    IN  IF key.r # "ok" THEN CmdErr
        ELSE IF value.r # "ok" THEN CmdErr
        ELSE IF opt.r = "eos" THEN set(None, value.i)
        ELSE IF opt.r # "ok" THEN CmdErr
        ELSE IF to_uppercase(opt.v) = <<"E", "X">> THEN
            IF num.r # "ok" THEN CmdErr ELSE set(Some(num.v * MillisPerSec), num.i)
        ELSE IF to_uppercase(opt.v) = <<"P", "X">> THEN
            IF num.r # "ok" THEN CmdErr ELSE set(Some(num.v), num.i)
        ELSE CmdErr

\* Publish::parse_frames
PublishParseFrames(parts, i) ==
    LET channel == next_string(parts, i)
        message == next_bytes(parts, channel.i)
    IN  IF channel.r # "ok" THEN CmdErr
        ELSE IF message.r # "ok" THEN CmdErr
        ELSE CmdOk([name |-> PublishName, channel |-> channel.v,
                    message |-> message.v], message.i)

\* The loop of Subscribe/Unsubscribe::parse_frames: strings to the end
RECURSIVE RestStrings(_, _, _)
RestStrings(parts, i, acc) ==
    LET s == next_string(parts, i)
    IN  IF s.r = "eos" THEN POk(acc, i)
        ELSE IF s.r # "ok" THEN POther
        ELSE RestStrings(parts, s.i, Append(acc, s.v))

\* Subscribe::parse_frames: at least one channel
SubscribeParseFrames(parts, i) ==
    LET first == next_string(parts, i)
        rest  == RestStrings(parts, first.i, <<first.v>>)
    IN  IF first.r # "ok" THEN CmdErr
        ELSE IF rest.r # "ok" THEN CmdErr
        ELSE CmdOk([name |-> SubscribeName, channels |-> rest.v], rest.i)

\* Unsubscribe::parse_frames: any number of channels
UnsubscribeParseFrames(parts, i) ==
    LET rest == RestStrings(parts, i, <<>>)
    IN  IF rest.r # "ok" THEN CmdErr
        ELSE CmdOk([name |-> UnsubscribeName, channels |-> rest.v], rest.i)

\* Ping::parse_frames
PingParseFrames(parts, i) ==
    LET msg == next_string(parts, i)
    IN  IF msg.r = "eos" THEN CmdOk([name |-> PingName, msg |-> None], i)
        ELSE IF msg.r # "ok" THEN CmdErr
        ELSE CmdOk([name |-> PingName, msg |-> Some(msg.v)], msg.i)

KnownNames == {GetName, SetName, PublishName, SubscribeName,
               UnsubscribeName, PingName}

\* Command::from_frame
from_frame(frame) ==
    IF frame.t # "Array" THEN CmdErr
    ELSE
    LET parts   == frame.a
        first   == next_string(parts, 1)
        command == to_lowercase(first.v)
        cmd == CASE command = GetName         -> GetParseFrames(parts, 2)
                 [] command = SetName         -> SetParseFrames(parts, 2)
                 [] command = PublishName     -> PublishParseFrames(parts, 2)
                 [] command = SubscribeName   -> SubscribeParseFrames(parts, 2)
                 [] command = UnsubscribeName -> UnsubscribeParseFrames(parts, 2)
                 [] command = PingName        -> PingParseFrames(parts, 2)
    IN  IF first.r # "ok" THEN CmdErr
        ELSE IF command \notin KnownNames
        THEN CmdOk([name |-> command, unknown |-> TRUE], 2)
        ELSE IF ~cmd.ok THEN CmdErr
        ELSE IF ~finish(parts, cmd.i) THEN CmdErr
        ELSE cmd

\* Whether a decoded command is Command::Unknown
IsUnknown(cmd) == "unknown" \in DOMAIN cmd

\* The text Unknown::apply formats the name of the command into
ErrUnknown == <<"E","r","r",":"," ","u","n","k","n","o","w","n"," ",
                "c","o","m","m","a","n","d"," ">>

\* An Unknown::apply that replies with the bare name: a fault the replies
\* in subscribed mode must show
BareReply(name) == Error(name)

\* The frame Unknown::apply writes:
\* format!("Err: unknown command '{}'", self.command)
UnknownReply(name) == Error(ErrUnknown \o <<"'">> \o name \o <<"'">>)

\* ------------------------------------------------------------- the state

VARIABLES
    \* State of db.rs, guarded by Shared::state's mutex
    entries,        \* key -> [id, data, expires_at]
    expirations,    \* <<when, id>> -> key
    next_id,
    shutdown,
    pub_sub,        \* the channels that have a broadcast::Sender
    \* Shared::background_task: whether a notify_one permit is stored
    permit,
    \* the calls of Db::set and Db::shutdown_purge_task that have released
    \* the mutex and have yet to call background_task.notify_one()
    notifying,
    \* purge_expired_tasks: where the task is, and the instant it sleeps until
    purge_pc,
    purge_when,
    \* server::run
    server,         \* "run": at its select!, "drain": awaiting
                    \* shutdown_complete_rx.recv(), "returned"
    \* Listener::run, polled by the select! of server::run
    listener,       \* "acquire": at acquire_owned(), "accept": at
                    \* self.listener.accept(), "sleep": at time::sleep,
                    \* "err": it returned Err, "dropped"
    backoff,        \* Listener::accept: its local, in seconds
    slept,          \* history: the seconds slept in this call of accept
    \* a Connection and the peer of its socket
    sent,           \* history: the bytes the peer sends before it closes
    stream,         \* self.stream: the bytes of them yet to be read
    buffer,         \* self.buffer
    frames,         \* history: the frames read_frame has returned
    read_pc,        \* read_frame: "idle": no call in progress, "parse": at
                    \* parse_frame, "read_buf": at read_buf().await, or
                    \* what it returned last: "end", "reset", "error"
    limit_connections,      \* the permits the semaphore has left
    shutdown_complete_tx,   \* who holds a sender of the drain channel:
                            \* 0 for the Listener, c for the handler of c
    \* per connection: the Handler task
    handler,        \* "none", "run", "subscribe", "done", "err", "panic"
    channels,       \* Subscribe::apply: self.channels, not yet subscribed
    subscriptions,  \* Subscribe::apply: the StreamMap, in its Vec's order
    unsubscribing,  \* handle_command: the channels its loop has yet to remove
    receiver,       \* subscribe_to_channel: its rx, before it is inserted
    \* history: the channels of the StreamMap, in the order they were last
    \* subscribed to
    subscribed,
    \* what the step just taken read from and wrote to a connection's socket
    read,           \* [c, frame]
    wrote,          \* [c, bytes]
    \* tokio's clock, in milliseconds
    now

vars == <<entries, expirations, next_id, shutdown, pub_sub, permit, notifying, purge_pc,
          purge_when, server, listener, backoff, slept, sent, stream, buffer,
          frames, read_pc, limit_connections, shutdown_complete_tx, handler, channels, subscriptions, unsubscribing,
          receiver, subscribed, read, wrote, now>>

\* The connections of the run
Conns == DOMAIN handler

dbVars    == <<entries, expirations, next_id, shutdown, pub_sub, permit,
               notifying>>
purgeVars == <<purge_pc, purge_when>>
\* What a handler task holds besides its Handler: the permit, and the sender
\* in its Handler
taskVars  == <<limit_connections, shutdown_complete_tx>>
\* server::run and the Listener::run it polls
acceptVars == <<listener, backoff, slept>>
serverVars == <<server, acceptVars>>
\* A Connection read by read_frame
connVars   == <<sent, stream, buffer, frames, read_pc>>
subVars   == <<channels, subscriptions, unsubscribing, receiver, subscribed>>

\* A step that reads no frame, writes no frame
NoRead  == [c |-> 0, frame |-> Array(<<>>)]
NoWrite == [c |-> 0, bytes |-> <<>>]
Quiet   == read' = NoRead /\ wrote' = NoWrite

\* The step reads this frame from the socket of connection c
Read(c, frame) == read' = [c |-> c, frame |-> frame]

\* The empty map
Empty == <<>>

\* f with key k mapped to v
Insert(f, k, v) == [x \in DOMAIN f \cup {k} |-> IF x = k THEN v ELSE f[x]]
\* f without key k
Remove(f, k) == [x \in DOMAIN f \ {k} |-> f[x]]

\* ---------------------------------------------------------------- db.rs

\* The order of BTreeMap<(Instant, u64), _> keys
KeyLess(a, b) == a[1] < b[1] \/ (a[1] = b[1] /\ a[2] < b[2])

\* expirations.iter().next(): the least key of a non-empty map
FirstKey(exp) == CHOOSE a \in DOMAIN exp : \A b \in DOMAIN exp : a = b \/ KeyLess(a, b)

\* State::next_expiration
next_expiration(exp) ==
    IF DOMAIN exp = {} THEN None ELSE Some(FirstKey(exp)[1])

\* Db::get
DbGet(key) ==
    IF key \in DOMAIN entries THEN Some(entries[key].data) ELSE None

\* Db::set: what the call makes of the state under the lock, and whether
\* it notifies the background task after releasing it.
SetWhen(expire) == IF IsSome(expire) THEN Some(now + Unwrap(expire)) ELSE None

\* A Db::set that notifies whenever it has a deadline: a fault the signal
\* must show
SetNotifyAny(expire) == IsSome(expire)

SetNotify(expire) ==
    /\ IsSome(expire)
    /\ \/ ~IsSome(next_expiration(expirations))
       \/ Unwrap(next_expiration(expirations)) > Unwrap(SetWhen(expire))

\* A Db::set that leaves the pair of the entry it replaces in expirations: a
\* fault the replacement must show
SetExpirationsStale(key, expire) ==
    IF IsSome(SetWhen(expire))
    THEN Insert(expirations, <<Unwrap(SetWhen(expire)), next_id>>, key)
    ELSE expirations

\* A Db::set that removes, with the pair of the entry it replaces, every
\* pair of the same instant: a fault keys of one deadline must show
SetExpirationsShared(key, expire) ==
    LET when     == SetWhen(expire)
        inserted == IF IsSome(when)
                    THEN Insert(expirations, <<Unwrap(when), next_id>>, key)
                    ELSE expirations
    IN  IF key \in DOMAIN entries /\ IsSome(entries[key].expires_at)
        THEN [p \in {q \in DOMAIN inserted :
                        q[1] # Unwrap(entries[key].expires_at)
                        \/ q[2] = next_id} |-> inserted[p]]
        ELSE inserted

SetExpirations(key, expire) ==
    LET id       == next_id
        when     == SetWhen(expire)
        inserted == IF IsSome(when)
                    THEN Insert(expirations, <<Unwrap(when), id>>, key)
                    ELSE expirations
    IN  IF key \in DOMAIN entries /\ IsSome(entries[key].expires_at)
        THEN Remove(inserted, <<Unwrap(entries[key].expires_at), entries[key].id>>)
        ELSE inserted

\* A Db::set that keeps the entry a key already has: a fault the round trip
\* must show
SetIfAbsent(key, value, expire) ==
    IF key \in DOMAIN entries THEN entries
    ELSE Insert(entries, key,
                [id |-> next_id, data |-> value, expires_at |-> SetWhen(expire)])

SetEntries(key, value, expire) ==
    Insert(entries, key,
           [id |-> next_id, data |-> value, expires_at |-> SetWhen(expire)])

\* A Db::set that leaves next_id as it is: a fault the ids must show
DbSetSameId(key, value, expire) ==
    /\ UNCHANGED next_id
    /\ expirations' = SetExpirations(key, expire)
    /\ entries' = SetEntries(key, value, expire)
    /\ permit' = (permit \/ SetNotify(expire))
    /\ UNCHANGED <<shutdown, pub_sub, notifying>>

DbSet(key, value, expire) ==
    /\ next_id < MaxId
    /\ next_id' = next_id + 1
    /\ expirations' = SetExpirations(key, expire)
    /\ entries' = SetEntries(key, value, expire)
    /\ permit' = (permit \/ SetNotify(expire))
    /\ UNCHANGED <<shutdown, pub_sub, notifying>>

\* Db::shutdown_purge_task
shutdown_purge_task ==
    /\ shutdown' = TRUE
    /\ permit' = TRUE
    /\ UNCHANGED <<entries, expirations, next_id, pub_sub, notifying>>

\* A scan that removes every pair, due or not: a fault the entries that are
\* not due must show
PurgedAll(exp) == Empty

\* Shared::purge_expired_keys: the state it leaves and the instant it returns
RECURSIVE PurgedExpirations(_)
PurgedExpirations(exp) ==
    IF DOMAIN exp = {} \/ FirstKey(exp)[1] > now THEN exp
    ELSE PurgedExpirations(Remove(exp, FirstKey(exp)))

\* A purge that removes the pairs that are due and leaves their entries: a
\* fault the index must show
UnpurgedEntries == entries

PurgedEntries ==
    LET left == PurgedExpirations(expirations)
        gone == {expirations[a] : a \in DOMAIN expirations \ DOMAIN left}
    IN  [k \in DOMAIN entries \ gone |-> entries[k]]

purge_expired_keys ==
    IF shutdown THEN None ELSE next_expiration(PurgedExpirations(expirations))

\* Db::subscribe: the channel gets a sender if it had none; the receiver
\* returned has nothing to receive yet.  A receiver is the values sent that
\* it has yet to receive (q), and whether its next recv reports Lagged.
DbSubscribe(key) == pub_sub \cup {key}
NewReceiver == [q |-> <<>>, lagged |-> FALSE]

\* The receivers of a channel's sender: one per StreamMap entry under its
\* name (i is its index), and the one a subscribe_to_channel has yet to
\* insert (i is 0)
Receivers(key) ==
    UNION {{<<c, i>> : i \in {j \in 1..Len(subscriptions[c]) :
                                subscriptions[c][j].channel = key}}
           \cup (IF IsSome(receiver[c]) /\ Head(channels[c]) = key
                 THEN {<<c, 0>>} ELSE {}) :
           c \in Conns}

\* A send that puts the value before those a receiver has yet to receive: a
\* fault the order of the messages must show
SentFirst(rx, value) == [rx EXCEPT !.q = <<value>> \o @]

\* broadcast::Sender::send as seen by one receiver: the value is queued, and
\* a receiver already Capacity values behind loses the oldest one.
Sent(rx, value) ==
    IF Len(rx.q) < Capacity THEN [rx EXCEPT !.q = Append(@, value)]
    ELSE [q |-> Append(Tail(rx.q), value), lagged |-> TRUE]

\* Db::publish: the number of receivers the value was sent to
DbPublish(key) ==
    IF key \in pub_sub THEN Cardinality(Receivers(key)) ELSE 0

\* The receivers in the StreamMaps after Db::publish
Published(key, value) ==
    [c \in Conns |->
        [i \in 1..Len(subscriptions[c]) |->
            IF key \in pub_sub /\ subscriptions[c][i].channel = key
            THEN [subscriptions[c][i] EXCEPT !.rx = Sent(@, value)]
            ELSE subscriptions[c][i]]]

\* The receivers yet to be inserted after Db::publish
PublishedReceiver(key, value) ==
    [c \in Conns |->
        IF key \in pub_sub /\ IsSome(receiver[c]) /\ Head(channels[c]) = key
        THEN Some(Sent(Unwrap(receiver[c]), value))
        ELSE receiver[c]]

\* ------------------------------------------------- purge_expired_tasks

\* while !shared.is_shutdown()
PurgeCheck ==
    /\ purge_pc = "check"
    /\ purge_pc' = IF shutdown THEN "exit" ELSE "purge"
    /\ Quiet
    /\ UNCHANGED <<purge_when, dbVars, handler, taskVars, subVars, serverVars, connVars, now>>

\* shared.purge_expired_keys(), then either arm of the if let
PurgeKeys ==
    /\ purge_pc = "purge"
    /\ IF shutdown
       THEN UNCHANGED <<entries, expirations>>
       ELSE /\ expirations' = PurgedExpirations(expirations)
            /\ entries' = PurgedEntries
    /\ IF IsSome(purge_expired_keys)
       THEN /\ purge_pc' = "select"
            /\ purge_when' = Unwrap(purge_expired_keys)
       ELSE /\ purge_pc' = "notified"
            /\ UNCHANGED purge_when
    /\ Quiet
    /\ UNCHANGED <<next_id, shutdown, pub_sub, permit, notifying, handler,
                   taskVars, subVars, serverVars, connVars, now>>

\* select! { sleep_until(when), background_task.notified() }; todo!()
PurgeSelect ==
    /\ purge_pc = "select"
    /\ \/ /\ now >= purge_when
          /\ UNCHANGED permit
       \/ /\ permit
          /\ permit' = FALSE
    /\ purge_pc' = "panic"
    /\ Quiet
    /\ UNCHANGED <<entries, expirations, next_id, shutdown, pub_sub, notifying,
                   purge_when, handler, taskVars, subVars, serverVars, connVars, now>>

\* shared.background_task.notified().await
PurgeNotified ==
    /\ purge_pc = "notified"
    /\ permit
    /\ permit' = FALSE
    /\ purge_pc' = "check"
    /\ Quiet
    /\ UNCHANGED <<entries, expirations, next_id, shutdown, pub_sub, notifying,
                   purge_when, handler, taskVars, subVars, serverVars, connVars, now>>

\* Whether the background task can take a step
PurgeRunnable ==
    \/ purge_pc \in {"check", "purge"}
    \/ purge_pc = "select" /\ (permit \/ now >= purge_when)
    \/ purge_pc = "notified" /\ permit

\* -------------------------------------------------------------- the clock

\* The instants the clock is seen at, in milliseconds since the start: the
\* start, one millisecond and one second later
Instants == {0, 1, MillisPerSec}

\* Time passes
Tick ==
    /\ \E t \in Instants :
        /\ t > now
        /\ now' = t
    /\ Quiet
    /\ UNCHANGED <<dbVars, purgeVars, serverVars, connVars, handler, taskVars, subVars>>

\* ----------------------------------------------------- what clients send

Keys     == {<<"a">>, <<"b">>}
Channels == {<<"c">>, <<"d">>}

GET         == <<"G","E","T">>
SET         == <<"S","E","T">>
PUBLISH     == <<"P","U","B","L","I","S","H">>
SUBSCRIBE   == <<"S","U","B","S","C","R","I","B","E">>
UNSUBSCRIBE == <<"U","N","S","U","B","S","C","R","I","B","E">>
PING        == <<"P","I","N","G">>

\* A request: an array of bulk strings
Request(words) == Array([i \in 1..Len(words) |-> Bulk(words[i])])

PingRequests == {Request(<<PING>>), Request(<<<<"p","i","n","g">>, <<"h","i">>>>)}

\* Requests whose first word is no command of the server
UnknownRequests ==
    {Request(<<<<"G","e","t","s">>, <<"a">>>>),
     Array(<<Bulk(<<"f","o","o">>), Integer(1), Null>>)}

\* Frames Command::from_frame refuses
BadRequests ==
    {Request(<<GET>>)}

\* The key-value side: a client that reads and writes keys, pings and sends
\* what the server does not know and publishes, and a second one that also
\* writes keys and subscribes
KvRequests1 ==
    PingRequests \cup UnknownRequests \cup BadRequests
    \cup {Request(<<GET, <<"a">>>>),
          Request(<<PUBLISH, <<"c">>, <<"m">>>>),
          Request(<<SET, <<"a">>, <<"x">>>>),
          Request(<<SET, <<"a">>, <<"x">>, <<"E","X">>, <<"1">>>>),
          Request(<<<<"s","e","t">>, <<"a">>, <<"y">>, <<"p","x">>, <<"1">>>>)}

KvRequests2 ==
    {Request(<<GET, <<"a">>>>),
     Request(<<GET, <<"b">>>>),
     Request(<<SET, <<"a">>, <<"y">>>>),
     Request(<<SET, <<"b">>, <<"x">>>>),
     Request(<<<<"F","O","O">>, <<"a">>>>),
     Request(<<SUBSCRIBE, <<"c">>>>),
     Request(<<UNSUBSCRIBE>>)}

\* The publish/subscribe side: a publishing client and two clients that
\* follow one channel
PublisherRequests ==
    {Request(<<PUBLISH, <<"c">>, <<"m">>>>),
     Request(<<PUBLISH, <<"c">>, <<"n">>>>),
     Request(<<PUBLISH, <<"d">>, <<"m">>>>)}

FollowerRequests ==
    {Request(<<SUBSCRIBE, <<"c">>>>),
     Request(<<UNSUBSCRIBE, <<"c">>>>)}

\* One subscription at work: a client that publishes and sets a key, and a
\* client that subscribes to and unsubscribes from two channels and,
\* subscribed or not, sends the other commands too
WriterRequests ==
    {Request(<<PUBLISH, <<"c">>, <<"m">>>>),
     Request(<<PUBLISH, <<"d">>, <<"n">>>>),
     Request(<<SET, <<"a">>, <<"x">>>>)}

SubscriberRequests ==
    {Request(<<SUBSCRIBE, <<"c">>>>),
     Request(<<SUBSCRIBE, <<"d">>, <<"c">>>>),
     Request(<<UNSUBSCRIBE>>),
     Request(<<UNSUBSCRIBE, <<"c">>>>),
     Request(<<GET, <<"a">>>>),
     Request(<<SET, <<"a">>, <<"y">>>>),
     Request(<<PUBLISH, <<"c">>, <<"n">>>>),
     Request(<<PING>>)}

\* Unsubscribing: a client that publishes, and a client that subscribes to
\* three channels, to one of them once more, and unsubscribes from one, from
\* two and from all
NewsRequests ==
    {Request(<<PUBLISH, <<"e">>, <<"m">>>>)}

UnsubscriberRequests ==
    {Request(<<SUBSCRIBE, <<"c">>, <<"d">>, <<"e">>>>),
     Request(<<SUBSCRIBE, <<"c">>>>),
     Request(<<UNSUBSCRIBE>>),
     Request(<<UNSUBSCRIBE, <<"c">>>>),
     Request(<<UNSUBSCRIBE, <<"d">>, <<"c">>>>)}

\* A faulty client: frames Command::from_frame refuses (no array, a word
\* that is no string, a missing word), a command that fails to apply, and,
\* to be in either mode when it fails, a SET and a SUBSCRIBE
FaultyRequests ==
    BadRequests
    \cup {Simple(<<"x">>),
          Array(<<Bulk(GET), Integer(1)>>),
          Request(<<UNSUBSCRIBE, <<"c">>>>),
          Request(<<SET, <<"a">>, <<"x">>>>),
          Request(<<SUBSCRIBE, <<"c">>>>)}

\* Streams that hold no frame: a type byte Frame::check refuses, a length
\* that is no number, and a frame the stream ends within
BrokenStreams ==
    {<<"!", CR, LF>>,
     <<"$", "x", CR, LF>>,
     <<"*", "1", CR, LF, "$", "3", CR, LF, "G">>}

\* The neighbour of the faulty client
NeighbourRequests ==
    {Request(<<GET, <<"a">>>>),
     Request(<<SET, <<"a">>, <<"y">>>>),
     Request(<<PUBLISH, <<"c">>, <<"m">>>>)}

\* A client that sets a key with and without a deadline, the option in
\* either case, with an option SET does not know, with an option and no
\* number or what is no number, and reads the key
SetRequests ==
    {Request(<<SET, <<"a">>, <<"x">>>>),
     Request(<<SET, <<"a">>, <<"x">>, <<"E","X">>, <<"1">>>>),
     Request(<<SET, <<"b">>, <<"y">>, <<"e","X">>, <<"2">>>>),
     Request(<<SET, <<"a">>, <<"y">>, <<"P","X">>, <<"1">>>>),
     Request(<<<<"s","e","t">>, <<"b">>, <<"x">>, <<"p","x">>, <<"2">>>>),
     Request(<<SET, <<"a">>, <<"x">>, <<"X","X">>>>),
     Request(<<SET, <<"a">>, <<"x">>, <<"E","X","P">>, <<"1">>>>),
     Request(<<SET, <<"a">>, <<"x">>, <<"E","X">>>>),
     Request(<<SET, <<"a">>, <<"x">>, <<"P","X">>, <<"x">>>>),
     Request(<<GET, <<"a">>>>)}

\* Frames that are no command: no array, a word that is no string, a GET
\* without its key, a GET with a word after its key, a SET with an option it
\* does not know
DecodeFaults ==
    {Simple(<<"x">>),
     Array(<<Bulk(GET), Integer(1)>>),
     Request(<<GET>>),
     Request(<<GET, <<"a">>, <<"b">>>>),
     Request(<<SET, <<"a">>, <<"x">>, <<"X","X">>>>)}

\* A client that sends them, in normal mode or after it subscribed, and one
\* that sets a key to expire and subscribes
FailingRequests ==
    DecodeFaults
    \cup {Request(<<SUBSCRIBE, <<"d">>>>),
          Request(<<SET, <<"a">>, <<"x">>, <<"E","X">>, <<"1">>>>)}

BystanderRequests ==
    {Request(<<SUBSCRIBE, <<"c">>>>),
     Request(<<SET, <<"a">>, <<"y">>, <<"P","X">>, <<"1">>>>)}

\* Every frame a client sends, and what Command::from_frame makes of each
Frames ==
    KvRequests1 \cup KvRequests2 \cup PublisherRequests
    \cup FollowerRequests \cup WriterRequests \cup SubscriberRequests
    \cup NewsRequests \cup UnsubscriberRequests
    \cup FaultyRequests \cup NeighbourRequests \cup SetRequests
    \cup FailingRequests \cup BystanderRequests

Decoded == [frame \in Frames |-> from_frame(frame)]

\* ------------------------------------------------------ tokio StreamMap

\* StreamMap::keys
StreamKeys(map) == [i \in 1..Len(map) |-> map[i].channel]

\* A StreamMap::remove that removes nothing: a fault the unsubscribe reply
\* must show
StreamKeep(map, k) == map

\* StreamMap::remove: swap_remove of the entry under k, if there is one
StreamRemove(map, k) ==
    IF \E i \in 1..Len(map) : map[i].channel = k
    THEN LET i == CHOOSE j \in 1..Len(map) : map[j].channel = k
         IN  [j \in 1..(Len(map) - 1) |-> IF j = i THEN map[Len(map)] ELSE map[j]]
    ELSE map

\* A StreamMap::insert that pushes without removing: a fault the count of
\* the subscribe reply must show
StreamPush(map, k, rx) == Append(map, [channel |-> k, rx |-> rx])

\* StreamMap::insert: remove, then push
StreamInsert(map, k, rx) ==
    Append(StreamRemove(map, k), [channel |-> k, rx |-> rx])

\* ------------------------------------------------------- cmd/subscribe.rs

SubscribeWord   == <<"s","u","b","s","c","r","i","b","e">>
UnsubscribeWord == <<"u","n","s","u","b","s","c","r","i","b","e">>
MessageWord     == <<"m","e","s","s","a","g","e">>

make_subscribe_frame(channel, sub_nums) ==
    Array(<<Bulk(SubscribeWord), Bulk(channel), Integer(sub_nums)>>)

\* An unsubscribe frame whose count is taken before the removal: a fault the
\* count of the unsubscribe reply must show
make_unsubscribe_before(channel, sub_nums) ==
    Array(<<Bulk(UnsubscribeWord), Bulk(channel), Integer(sub_nums + 1)>>)

make_unsubscribe_frame(channel, sub_nums) ==
    Array(<<Bulk(UnsubscribeWord), Bulk(channel), Integer(sub_nums)>>)

make_message_frame(channel, msg) ==
    Array(<<Bulk(MessageWord), Bulk(channel), Bulk(msg)>>)

\* dst.write_frame(frame) on connection c
Write(c, frame) == wrote' = [c |-> c, bytes |-> write_frame(frame)]

\* A task whose end takes every handler task with it: a fault the isolation
\* of connections must show
EveryHandlerEnds(c, how) ==
    /\ handler' = [d \in DOMAIN handler |->
                      IF handler[d] \in {"run", "subscribe"} THEN how
                      ELSE handler[d]]
    /\ channels' = [d \in DOMAIN handler |-> <<>>]
    /\ subscriptions' = [d \in DOMAIN handler |-> <<>>]
    /\ unsubscribing' = [d \in DOMAIN handler |-> <<>>]
    /\ receiver' = [d \in DOMAIN handler |-> <<>>]
    /\ subscribed' = [d \in DOMAIN handler |-> <<>>]
    /\ limit_connections' = limit_connections + 1
    /\ shutdown_complete_tx' = shutdown_complete_tx \ {c}

\* A task that keeps its permit when it panics: a fault the count of the
\* permits must show
HandlerEndsLeaks(c, how) ==
    /\ handler' = [handler EXCEPT ![c] = how]
    /\ channels' = [channels EXCEPT ![c] = <<>>]
    /\ subscriptions' = [subscriptions EXCEPT ![c] = <<>>]
    /\ unsubscribing' = [unsubscribing EXCEPT ![c] = <<>>]
    /\ receiver' = [receiver EXCEPT ![c] = None]
    /\ subscribed' = [subscribed EXCEPT ![c] = <<>>]
    /\ limit_connections' =
           IF how = "panic" THEN limit_connections ELSE limit_connections + 1
    /\ shutdown_complete_tx' = shutdown_complete_tx \ {c}

\* The handler task of c ends with `how`; its Handler, and with it the
\* StreamMap of a Subscribe::apply in progress, is dropped.
HandlerEnds(c, how) ==
    /\ handler' = [handler EXCEPT ![c] = how]
    /\ channels' = [channels EXCEPT ![c] = <<>>]
    /\ subscriptions' = [subscriptions EXCEPT ![c] = <<>>]
    /\ unsubscribing' = [unsubscribing EXCEPT ![c] = <<>>]
    /\ receiver' = [receiver EXCEPT ![c] = None]
    /\ subscribed' = [subscribed EXCEPT ![c] = <<>>]
    /\ limit_connections' = limit_connections + 1
    /\ shutdown_complete_tx' = shutdown_complete_tx \ {c}

\* A sequence without its occurrences of k
Without(seq, k) == SelectSeq(seq, LAMBDA x : x # k)

\* subscribe_to_channel, for the first channel Subscribe::apply drains:
\* db.subscribe, under the lock of the database
SubscribeToChannel(c) ==
    /\ handler[c] = "subscribe"
    /\ channels[c] # <<>>
    /\ unsubscribing[c] = <<>>
    /\ receiver[c] = None
    /\ pub_sub' = DbSubscribe(Head(channels[c]))
    /\ receiver' = [receiver EXCEPT ![c] = Some(NewReceiver)]
    /\ Quiet
    /\ UNCHANGED <<entries, expirations, next_id, shutdown, permit, notifying,
                   purgeVars,
                   handler, taskVars, channels, subscriptions, unsubscribing,
                   subscribed, serverVars, connVars, now>>

\* subscribe_to_channel: subscriptions.insert, which drops the stream the
\* channel had in the map, and the reply
SubscribeInsert(c) ==
    /\ handler[c] = "subscribe"
    /\ IsSome(receiver[c])
    /\ LET channel == Head(channels[c])
           map     == StreamInsert(subscriptions[c], channel, Unwrap(receiver[c]))
       IN  /\ subscriptions' = [subscriptions EXCEPT ![c] = map]
           /\ Write(c, make_subscribe_frame(channel, Len(map)))
           /\ subscribed' = [subscribed EXCEPT ![c] =
                  Append(Without(@, channel), channel)]
    /\ read' = NoRead
    /\ channels' = [channels EXCEPT ![c] = Tail(@)]
    /\ receiver' = [receiver EXCEPT ![c] = None]
    /\ UNCHANGED <<dbVars, purgeVars, handler, taskVars, unsubscribing, serverVars, connVars, now>>

\* A select! that is reached before the channels of the last command are
\* gone through: a fault the order of the replies must show
AtLoop(c) == handler[c] = "subscribe"

\* Whether Subscribe::apply on c is at its select!
AtSelect(c) ==
    /\ handler[c] = "subscribe"
    /\ channels[c] = <<>>
    /\ unsubscribing[c] = <<>>

\* A stream that ends when its receiver reports Lagged, and is dropped from
\* the map: a fault the slow consumer must show
StreamBreaks(c, i) ==
    IF subscriptions[c][i].rx.lagged
    THEN /\ subscriptions' = [subscriptions EXCEPT ![c] =
                                  StreamRemove(@, subscriptions[c][i].channel)]
         /\ wrote' = NoWrite
    ELSE /\ subscriptions[c][i].rx.q # <<>>
         /\ subscriptions' = [subscriptions EXCEPT ![c][i].rx =
                                  [q |-> Tail(@.q), lagged |-> FALSE]]
         /\ Write(c, make_message_frame(subscriptions[c][i].channel,
                                        Head(subscriptions[c][i].rx.q)))

\* The stream of subscribe_to_channel at index i of the map yields its next
\* value (a Lagged error is passed over), which Subscribe::apply writes as a
\* message frame
StreamNext(c, i) ==
    /\ subscriptions[c][i].rx.q # <<>>
    /\ subscriptions' = [subscriptions EXCEPT ![c][i].rx =
                             [q |-> Tail(@.q), lagged |-> FALSE]]
    /\ Write(c, make_message_frame(subscriptions[c][i].channel,
                                   Head(subscriptions[c][i].rx.q)))

\* select!: subscriptions.next() yields the next value of one of the streams
\* that have one
SubscribeMessage(c) ==
    /\ AtSelect(c)
    /\ \E i \in 1..Len(subscriptions[c]) : StreamNext(c, i)
    /\ read' = NoRead
    /\ UNCHANGED <<dbVars, purgeVars, handler, taskVars, channels, unsubscribing,
                   receiver, subscribed, serverVars, connVars, now>>

\* select!: dst.read_frame() returns a frame, which handle_command decodes
\* and starts to carry out
SubscribeFrame(c, frame) ==
    /\ AtSelect(c)
    /\ Read(c, frame)
    /\ LET res == Decoded[frame]
       IN  IF ~res.ok THEN
               /\ HandlerEnds(c, "err")
               /\ wrote' = NoWrite
           ELSE IF res.cmd.name = SubscribeName THEN
               /\ channels' = [channels EXCEPT ![c] = @ \o res.cmd.channels]
               /\ wrote' = NoWrite
               /\ UNCHANGED <<handler, taskVars, subscriptions, unsubscribing, receiver,
                              subscribed>>
           ELSE IF res.cmd.name = UnsubscribeName THEN
               /\ unsubscribing' = [unsubscribing EXCEPT ![c] =
                      IF res.cmd.channels = <<>>
                      THEN StreamKeys(subscriptions[c])
                      ELSE res.cmd.channels]
               /\ wrote' = NoWrite
               /\ UNCHANGED <<handler, taskVars, channels, subscriptions, receiver,
                              subscribed>>
           ELSE
               /\ Write(c, UnknownReply(res.cmd.name))
               /\ UNCHANGED <<handler, taskVars, subVars>>
    /\ UNCHANGED <<dbVars, purgeVars, serverVars, connVars, now>>

\* An Unsubscribe that ends Subscribe::apply when it removes the last
\* channel, the handler back in the loop of Handler::run: a fault the
\* subscribed mode must show
UnsubscribeLeaves(c) ==
    /\ handler[c] = "subscribe"
    /\ unsubscribing[c] # <<>>
    /\ LET channel == Head(unsubscribing[c])
           map     == StreamRemove(subscriptions[c], channel)
       IN  /\ subscriptions' = [subscriptions EXCEPT ![c] = map]
           /\ Write(c, make_unsubscribe_frame(channel, Len(map)))
           /\ subscribed' = [subscribed EXCEPT ![c] = Without(@, channel)]
           /\ handler' = [handler EXCEPT ![c] =
                  IF Len(map) = 0 /\ Len(unsubscribing[c]) = 1
                  THEN "run" ELSE @]
    /\ read' = NoRead
    /\ unsubscribing' = [unsubscribing EXCEPT ![c] = Tail(@)]
    /\ UNCHANGED <<dbVars, purgeVars, taskVars, channels, receiver,
                   serverVars, connVars, now>>

\* handle_command's loop over the channels of an Unsubscribe: the next one
UnsubscribeChannel(c) ==
    /\ handler[c] = "subscribe"
    /\ unsubscribing[c] # <<>>
    /\ LET channel == Head(unsubscribing[c])
           map     == StreamRemove(subscriptions[c], channel)
       IN  /\ subscriptions' = [subscriptions EXCEPT ![c] = map]
           /\ Write(c, make_unsubscribe_frame(channel, Len(map)))
           /\ subscribed' = [subscribed EXCEPT ![c] = Without(@, channel)]
    /\ read' = NoRead
    /\ unsubscribing' = [unsubscribing EXCEPT ![c] = Tail(@)]
    /\ UNCHANGED <<dbVars, purgeVars, handler, taskVars, channels, receiver, serverVars, connVars, now>>

\* select!: dst.read_frame() returns None, the client closed its socket
SubscribeEof(c) ==
    /\ AtSelect(c)
    /\ HandlerEnds(c, "done")
    /\ Quiet
    /\ UNCHANGED <<dbVars, purgeVars, serverVars, connVars, now>>

\* ------------------------------------------------- cmd/*.rs: Command::apply

OkWord   == <<"O","K">>
PongWord == <<"P","O","N","G">>

\* Get::apply
GetApply(c, cmd) ==
    /\ Write(c, IF IsSome(DbGet(cmd.key))
                 THEN Bulk(Unwrap(DbGet(cmd.key))) ELSE Null)
    /\ UNCHANGED <<dbVars, handler, taskVars, subVars>>

\* Set::apply
SetApply(c, cmd) ==
    /\ DbSet(cmd.key, cmd.value, cmd.expire)
    /\ Write(c, Simple(OkWord))
    /\ UNCHANGED <<handler, taskVars, subVars>>

\* Publish::apply
PublishApply(c, cmd) ==
    /\ subscriptions' = Published(cmd.channel, cmd.message)
    /\ receiver' = PublishedReceiver(cmd.channel, cmd.message)
    /\ Write(c, Integer(DbPublish(cmd.channel)))
    /\ UNCHANGED <<dbVars, handler, taskVars, channels, unsubscribing, subscribed>>

\* Subscribe::apply, up to its loop
SubscribeApply(c, cmd) ==
    /\ handler' = [handler EXCEPT ![c] = "subscribe"]
    /\ channels' = [channels EXCEPT ![c] = cmd.channels]
    /\ wrote' = NoWrite
    /\ UNCHANGED <<dbVars, taskVars, subscriptions, unsubscribing, receiver,
                   subscribed>>

\* Ping::apply
PingApply(c, cmd) ==
    /\ Write(c, IF IsSome(cmd.msg)
                 THEN Bulk(Unwrap(cmd.msg)) ELSE Simple(PongWord))
    /\ UNCHANGED <<dbVars, handler, taskVars, subVars>>

\* Unknown::apply
UnknownApply(c, cmd) ==
    /\ Write(c, UnknownReply(cmd.name))
    /\ UNCHANGED <<dbVars, handler, taskVars, subVars>>

\* A panic in the handler task: the task ends, nothing is written
HandlerPanics(c) ==
    /\ HandlerEnds(c, "panic")
    /\ wrote' = NoWrite
    /\ UNCHANGED dbVars

\* A handler that passes over an error and goes on: a fault the end of the
\* connection must show
HandlerCarriesOn(c) ==
    /\ wrote' = NoWrite
    /\ UNCHANGED <<dbVars, handler, taskVars, subVars>>

\* The handler returns an error: server.rs logs it, the task ends
HandlerFails(c) ==
    /\ HandlerEnds(c, "err")
    /\ wrote' = NoWrite
    /\ UNCHANGED dbVars

\* Command::apply
CommandApply(c, cmd) ==
    IF IsUnknown(cmd) THEN UnknownApply(c, cmd)
    ELSE CASE cmd.name = GetName         -> GetApply(c, cmd)
           [] cmd.name = SetName         -> SetApply(c, cmd)
           [] cmd.name = PublishName     -> PublishApply(c, cmd)
           [] cmd.name = SubscribeName   -> SubscribeApply(c, cmd)
           [] cmd.name = PingName        -> HandlerPanics(c)
           [] cmd.name = UnsubscribeName -> HandlerFails(c)

\* --------------------------------------------------------------- server.rs

\* DbDropGuard::db takes the guard by value: the guard is dropped when the
\* call returns, and its Drop runs Db::shutdown_purge_task.
DbDropGuardDb == shutdown_purge_task

\* A listener that accepts without a permit: a fault the cap must show
AcceptUnlimited(c) ==
    /\ server = "run"
    /\ handler[c] = "none"
    /\ limit_connections' = limit_connections - 1
    /\ shutdown_complete_tx' = shutdown_complete_tx \cup {c}
    /\ handler' = [handler EXCEPT ![c] = "run"]
    /\ shutdown_purge_task
    /\ Quiet
    /\ UNCHANGED <<purgeVars, subVars, serverVars, connVars, now>>

\* Listener::run, one turn of its loop: a permit is acquired, a connection
\* accepted and its Handler spawned.  server::run polls Listener::run until
\* its select! ends.
Accept(c) ==
    /\ server = "run"
    /\ limit_connections > 0
    /\ handler[c] = "none"
    /\ limit_connections' = limit_connections - 1
    /\ shutdown_complete_tx' = shutdown_complete_tx \cup {c}
    /\ handler' = [handler EXCEPT ![c] = "run"]
    /\ DbDropGuardDb
    /\ Quiet
    /\ UNCHANGED <<purgeVars, subVars, serverVars, connVars, now>>

\* Listener::accept gives up on an error once backoff is above this
MaxBackoff == 64

\* Listener::run, the head of its loop: a permit is acquired for the
\* connection to come and Listener::accept is called, its backoff 1
AcquirePermit ==
    /\ server = "run"
    /\ listener = "acquire"
    /\ limit_connections > 0
    /\ limit_connections' = limit_connections - 1
    /\ listener' = "accept"
    /\ backoff' = 1
    /\ slept' = <<>>
    /\ Quiet
    /\ UNCHANGED <<dbVars, purgeVars, server, shutdown_complete_tx, handler,
                   subVars, connVars, now>>

\* Listener::accept: self.listener.accept() returns a socket; Listener::run
\* builds the Handler, spawns its task with the permit, and loops
AcceptOk(c) ==
    /\ server = "run"
    /\ listener = "accept"
    /\ handler[c] = "none"
    /\ listener' = "acquire"
    /\ shutdown_complete_tx' = shutdown_complete_tx \cup {c}
    /\ handler' = [handler EXCEPT ![c] = "run"]
    /\ DbDropGuardDb
    /\ Quiet
    /\ UNCHANGED <<purgeVars, subVars, server, limit_connections, backoff,
                   slept, connVars, now>>

\* Listener::accept: self.listener.accept() returns an error with backoff
\* not above 64: it sleeps backoff seconds
AcceptErr ==
    /\ server = "run"
    /\ listener = "accept"
    /\ ~(backoff > MaxBackoff)
    /\ listener' = "sleep"
    /\ slept' = Append(slept, backoff)
    /\ Quiet
    /\ UNCHANGED <<dbVars, purgeVars, server, backoff, taskVars, handler,
                   subVars, connVars, now>>

\* A sleep after which backoff is what it was
AcceptSleptSame ==
    /\ server = "run"
    /\ listener = "sleep"
    /\ listener' = "accept"
    /\ Quiet
    /\ UNCHANGED <<dbVars, purgeVars, server, backoff, slept, taskVars,
                   handler, subVars, connVars, now>>

\* Listener::accept: the sleep is over, backoff is doubled and
\* self.listener.accept() awaited again
AcceptSlept ==
    /\ server = "run"
    /\ listener = "sleep"
    /\ backoff' = backoff * 2
    /\ listener' = "accept"
    /\ Quiet
    /\ UNCHANGED <<dbVars, purgeVars, server, slept, taskVars, handler,
                   subVars, connVars, now>>

\* Listener::accept: self.listener.accept() returns an error with backoff
\* above 64: accept returns it, Listener::run returns it and drops its
\* permit, the select! of server::run ends; notify_shutdown and the
\* Listener's shutdown_complete_tx are dropped, and
\* shutdown_complete_rx.recv() awaited
AcceptGivesUp ==
    /\ server = "run"
    /\ listener = "accept"
    /\ backoff > MaxBackoff
    /\ listener' = "err"
    /\ server' = "drain"
    /\ limit_connections' = limit_connections + 1
    /\ shutdown_complete_tx' = shutdown_complete_tx \ {0}
    /\ Quiet
    /\ UNCHANGED <<dbVars, purgeVars, backoff, slept, handler, subVars, connVars, now>>

\* Handler::run: one turn of its loop on a frame read from the socket
HandlerFrame(c, frame) ==
    /\ handler[c] = "run"
    /\ Read(c, frame)
    /\ IF Decoded[frame].ok
       THEN CommandApply(c, Decoded[frame].cmd)
       ELSE HandlerFails(c)
    /\ UNCHANGED <<purgeVars, serverVars, connVars, now>>

\* Handler::run: read_frame returns None, the client closed its socket
HandlerEof(c) ==
    /\ handler[c] = "run"
    /\ HandlerEnds(c, "done")
    /\ Quiet
    /\ UNCHANGED <<dbVars, purgeVars, serverVars, connVars, now>>

\* What read_frame returns for a stream that holds buf and then ends:
\* a frame, None for the end of an empty stream, or an error, for bytes
\* Frame::check refuses and for a stream that ends within a frame
read_frame(buf) ==
    LET f == parse_frame(buf)
    IN  IF f.r = "ok" THEN [r |-> "ok", v |-> f.v]
        ELSE IF f.r = "none"
        THEN IF buf = <<>> THEN [r |-> "end"] ELSE [r |-> "reset"]
        ELSE [r |-> "error"]

\* The peer writes its bytes to the socket and closes it
PeerSends(bytes) ==
    /\ sent = <<>>
    /\ read_pc = "idle"
    /\ bytes # <<>>
    /\ sent' = bytes
    /\ stream' = bytes
    /\ Quiet
    /\ UNCHANGED <<buffer, frames, read_pc>>
    /\ UNCHANGED <<dbVars, purgeVars, serverVars, handler, taskVars, subVars, now>>

\* read_frame is called
ReadFrame ==
    /\ read_pc = "idle"
    /\ read_pc' = "parse"
    /\ Quiet
    /\ UNCHANGED <<sent, stream, buffer, frames>>
    /\ UNCHANGED <<dbVars, purgeVars, serverVars, handler, taskVars, subVars, now>>

\* read_frame, the head of its loop: parse_frame returns a frame, which is
\* taken off the buffer and returned, or None, or an error
ReadFrameParse ==
    /\ read_pc = "parse"
    /\ LET f == parse_frame(buffer)
       IN  CASE f.r = "ok" ->
                  /\ frames' = Append(frames, f.v)
                  /\ buffer' = SubSeq(buffer, f.pos, Len(buffer))
                  /\ read_pc' = "idle"
             [] f.r = "none" ->
                  /\ read_pc' = "read_buf"
                  /\ UNCHANGED <<buffer, frames>>
             [] OTHER ->
                  /\ read_pc' = "error"
                  /\ UNCHANGED <<buffer, frames>>
    /\ Quiet
    /\ UNCHANGED <<sent, stream>>
    /\ UNCHANGED <<dbVars, purgeVars, serverVars, handler, taskVars, subVars, now>>

\* read_frame: read_buf appends the n bytes the socket has to the buffer
ReadBuf(n) ==
    /\ read_pc = "read_buf"
    /\ n \in 1..Len(stream)
    /\ buffer' = buffer \o SubSeq(stream, 1, n)
    /\ stream' = SubSeq(stream, n + 1, Len(stream))
    /\ read_pc' = "parse"
    /\ Quiet
    /\ UNCHANGED <<sent, frames>>
    /\ UNCHANGED <<dbVars, purgeVars, serverVars, handler, taskVars, subVars, now>>

\* A read_buf of 0 bytes that is taken for a clean end whatever the buffer
\* holds: a fault the end of the stream must show
ReadBufEndClean ==
    /\ read_pc = "read_buf"
    /\ stream = <<>>
    /\ read_pc' = "end"
    /\ Quiet
    /\ UNCHANGED <<sent, stream, buffer, frames>>
    /\ UNCHANGED <<dbVars, purgeVars, serverVars, handler, taskVars, subVars, now>>

\* read_frame: read_buf returns 0, the peer has closed the socket
ReadBufEnd ==
    /\ read_pc = "read_buf"
    /\ stream = <<>>
    /\ read_pc' = IF buffer = <<>> THEN "end" ELSE "reset"
    /\ Quiet
    /\ UNCHANGED <<sent, stream, buffer, frames>>
    /\ UNCHANGED <<dbVars, purgeVars, serverVars, handler, taskVars, subVars, now>>

\* A read_frame whose buffer dies with its future: a fault the re-issued
\* call must show
ReadFrameCancelLoses ==
    /\ read_pc = "read_buf"
    /\ read_pc' = "idle"
    /\ buffer' = <<>>
    /\ Quiet
    /\ UNCHANGED <<sent, stream, frames>>
    /\ UNCHANGED <<dbVars, purgeVars, serverVars, handler, taskVars, subVars, now>>

\* A select! ends with another of its branches: the future of read_frame is
\* dropped at its read_buf().await
ReadFrameCancel ==
    /\ read_pc = "read_buf"
    /\ read_pc' = "idle"
    /\ Quiet
    /\ UNCHANGED <<sent, stream, buffer, frames>>
    /\ UNCHANGED <<dbVars, purgeVars, serverVars, handler, taskVars, subVars, now>>

\* Handler::run: read_frame returns an error, which `?` returns
HandlerReadFails(c, buf) ==
    /\ handler[c] = "run"
    /\ read_frame(buf).r \in {"reset", "error"}
    /\ HandlerEnds(c, "err")
    /\ Quiet
    /\ UNCHANGED <<dbVars, purgeVars, serverVars, connVars, now>>

\* Subscribe::apply, at its select!: read_frame returns an error
SubscribeReadFails(c, buf) ==
    /\ AtSelect(c)
    /\ read_frame(buf).r \in {"reset", "error"}
    /\ HandlerEnds(c, "err")
    /\ Quiet
    /\ UNCHANGED <<dbVars, purgeVars, serverVars, connVars, now>>

\* A notify_shutdown that is never dropped: a fault the shutdown must show
NotifyKept == FALSE

\* notify_shutdown was dropped: the notify.recv() of Shutdown::recv returns
NotifyClosed == server # "run"

\* The permits the future of Listener::run holds: the one it acquired for
\* the connection it is yet to accept
ListenerPermits == IF listener \in {"accept", "sleep"} THEN 1 ELSE 0

\* server::run: its select! ends with the shutdown signal, the future of
\* Listener::run is dropped; notify_shutdown and the Listener's
\* shutdown_complete_tx are dropped, and shutdown_complete_rx.recv() awaited
Signal ==
    /\ server = "run"
    /\ server' = "drain"
    /\ listener' = "dropped"
    /\ limit_connections' = limit_connections + ListenerPermits
    /\ shutdown_complete_tx' = shutdown_complete_tx \ {0}
    /\ Quiet
    /\ UNCHANGED <<dbVars, purgeVars, backoff, slept, handler, subVars, connVars, now>>

\* Handler::run, at its select!: shutdown.recv() returns, the handler returns
HandlerShutdown(c) ==
    /\ handler[c] = "run"
    /\ NotifyClosed
    /\ HandlerEnds(c, "done")
    /\ Quiet
    /\ UNCHANGED <<dbVars, purgeVars, serverVars, connVars, now>>

\* Subscribe::apply, at its select!: shutdown.recv() returns
SubscribeShutdown(c) ==
    /\ AtSelect(c)
    /\ NotifyClosed
    /\ HandlerEnds(c, "done")
    /\ Quiet
    /\ UNCHANGED <<dbVars, purgeVars, serverVars, connVars, now>>

\* A recv() that returns once the Listener's own sender is dropped: a fault
\* the drain must show
ServerReturnsEarly ==
    /\ server = "drain"
    /\ server' = "returned"
    /\ shutdown_purge_task
    /\ Quiet
    /\ UNCHANGED <<purgeVars, acceptVars, handler, taskVars, subVars, connVars, now>>

\* server::run: shutdown_complete_rx.recv() returns None, every sender being
\* dropped, and run returns; what is left of the Listener is dropped, the
\* DbDropGuard with it when no connection took it
ServerReturns ==
    /\ server = "drain"
    /\ shutdown_complete_tx = {}
    /\ server' = "returned"
    /\ shutdown_purge_task
    /\ Quiet
    /\ UNCHANGED <<purgeVars, acceptVars, handler, taskVars, subVars, connVars, now>>

\* ------------------------------------------------------ the specification

Init ==
    /\ server = "run"
    /\ listener = "acquire"
    /\ backoff = 1
    /\ slept = <<>>
    /\ sent = <<>>
    /\ stream = <<>>
    /\ buffer = <<>>
    /\ frames = <<>>
    /\ read_pc = "idle"
    /\ limit_connections = MAX_CONNECTIONS
    /\ shutdown_complete_tx = {0}
    /\ entries = Empty
    /\ expirations = Empty
    /\ next_id = 0
    /\ shutdown = FALSE
    /\ pub_sub = {}
    /\ permit = FALSE
    /\ notifying = 0
    /\ purge_pc = "check"
    /\ purge_when = 0
    /\ channels = [c \in DOMAIN handler |-> <<>>]
    /\ subscriptions = [c \in DOMAIN handler |-> <<>>]
    /\ unsubscribing = [c \in DOMAIN handler |-> <<>>]
    /\ receiver = [c \in DOMAIN handler |-> None]
    /\ subscribed = [c \in DOMAIN handler |-> <<>>]
    /\ read = NoRead
    /\ wrote = NoWrite
    /\ now = 0

\* The handler tasks in normal mode, with client c sending frames of R[c]
Handlers(R) ==
    \/ \E c \in Conns : Accept(c)
    \/ \E c \in Conns : \E frame \in R[c] : HandlerFrame(c, frame)
    \/ \E c \in Conns : HandlerEof(c)

\* The handler tasks in Subscribe::apply
Subscribers(R) ==
    \/ \E c \in Conns : SubscribeToChannel(c)
    \/ \E c \in Conns : SubscribeInsert(c)
    \/ \E c \in Conns : SubscribeMessage(c)
    \/ \E c \in Conns : \E frame \in R[c] : SubscribeFrame(c, frame)
    \/ \E c \in Conns : UnsubscribeChannel(c)
    \/ \E c \in Conns : SubscribeEof(c)

\* The listener and the handler tasks
Server(R) == Handlers(R) \/ Subscribers(R)

\* The background task of the database.  Every handler is given its Db by
\* DbDropGuard::db, which shuts the task down, so the task never gets to
\* PurgeSelect once a connection was accepted.
PurgeTask ==
    \/ PurgeCheck
    \/ PurgeKeys
    \/ PurgeNotified

\* The key-value side: two clients, the background task and the clock
KvClients == <<KvRequests1, KvRequests2>>

InitKv == handler = [c \in DOMAIN KvClients |-> "none"] /\ Init

Next == Server(KvClients) \/ PurgeTask \/ Tick

Spec == InitKv /\ [][Next]_vars

\* The publish/subscribe side: a publisher and two followers
PsClients == <<PublisherRequests, FollowerRequests, FollowerRequests>>

InitPs == handler = [c \in DOMAIN PsClients |-> "none"] /\ Init

NextPs == Server(PsClients)

SpecPs == InitPs /\ [][NextPs]_vars

\* One subscription at work: a writer and a subscriber
SubClients == <<WriterRequests, SubscriberRequests>>

InitSub == handler = [c \in DOMAIN SubClients |-> "none"] /\ Init

NextSub == Server(SubClients)

SpecSub == InitSub /\ [][NextSub]_vars

\* Unsubscribing: a publisher and a client with up to three subscriptions
UnsubClients == <<NewsRequests, UnsubscriberRequests>>

InitUnsub == handler = [c \in DOMAIN UnsubClients |-> "none"] /\ Init

NextUnsub == Server(UnsubClients)

SpecUnsub == InitUnsub /\ [][NextUnsub]_vars

\* The database on its own, as Db::new leaves it and before a DbDropGuard
\* is dropped: calls of Db::set, the background task and the clock
DbValues  == {<<"x">>, <<"y">>}
DbExpires == {None, Some(1), Some(MillisPerSec)}

SetCall(key, value, expire) ==
    /\ DbSet(key, value, expire)
    /\ Quiet
    /\ UNCHANGED <<purgeVars, serverVars, connVars, handler, taskVars, subVars, now>>

InitDb == handler = <<>> /\ Init

NextDb ==
    \/ \E key \in Keys : \E value \in DbValues : \E expire \in DbExpires :
        SetCall(key, value, expire)
    \/ PurgeTask
    \/ PurgeSelect
    \/ Tick

SpecDb == InitDb /\ [][NextDb]_vars

\* The database and its background task step by step.  Db::set and
\* Db::shutdown_purge_task call notify_one after they have released the
\* mutex, so the background task, or another call, may take the mutex in
\* between.

\* Db::set as far as drop(state)
SetLocked(key, value, expire) ==
    /\ next_id < MaxId
    /\ next_id' = next_id + 1
    /\ expirations' = SetExpirations(key, expire)
    /\ entries' = SetEntries(key, value, expire)
    /\ notifying' = notifying + (IF SetNotify(expire) THEN 1 ELSE 0)
    /\ Quiet
    /\ UNCHANGED <<shutdown, pub_sub, permit, purgeVars, serverVars, connVars, handler,
                   taskVars, subVars, now>>

\* Db::shutdown_purge_task as far as drop(state); the DbDropGuard is dropped
\* once
ShutdownLocked ==
    /\ ~shutdown
    /\ shutdown' = TRUE
    /\ notifying' = notifying + 1
    /\ Quiet
    /\ UNCHANGED <<entries, expirations, next_id, pub_sub, permit, purgeVars,
                   serverVars, connVars, handler, taskVars, subVars, now>>

\* self.shared.background_task.notify_one(), of either: with no permit
\* stored one is, for the notified() of the background task to take
NotifyOne ==
    /\ notifying > 0
    /\ notifying' = notifying - 1
    /\ permit' = TRUE
    /\ Quiet
    /\ UNCHANGED <<entries, expirations, next_id, shutdown, pub_sub, purgeVars,
                   serverVars, connVars, handler, taskVars, subVars, now>>

InitPurge == handler = <<>> /\ Init

NextPurge ==
    \/ \E key \in Keys : \E value \in DbValues : \E expire \in DbExpires :
        SetLocked(key, value, expire)
    \/ ShutdownLocked
    \/ NotifyOne
    \/ PurgeTask
    \/ PurgeSelect
    \/ Tick

\* A task that can go on does: the background task, and a call that has
\* yet to notify.  The clock is not bound to move.
FairPurge ==
    /\ WF_vars(PurgeCheck)
    /\ WF_vars(PurgeKeys)
    /\ WF_vars(PurgeSelect)
    /\ WF_vars(PurgeNotified)
    /\ WF_vars(NotifyOne)

SpecPurge == InitPurge /\ [][NextPurge]_vars /\ FairPurge

\* Frames on the wire: a Connection writes a frame, and the Connection at
\* the other end of the socket parses what it wrote
Texts   == {<<>>, <<"O", "K">>, <<"1">>}
Blobs   == {<<>>, <<"a">>, <<CR, LF>>}
Numbers == {0, 9, 10, 255}

Atoms ==
    {Simple(x) : x \in Texts} \cup {Error(x) : x \in Texts}
    \cup {Integer(n) : n \in Numbers} \cup {Null} \cup {Bulk(b) : b \in Blobs}

Inner == Atoms \cup {Array(<<>>), Array(<<Integer(0)>>)}

WireFrames ==
    Atoms \cup {Array(<<>>)} \cup {Array(<<x>>) : x \in Inner}
    \cup {Array(<<x, y>>) : x \in Inner, y \in Inner}

\* write_frame on a connection with no handler of the server
WriteFrame(frame) ==
    /\ wrote' = [c |-> 0, bytes |-> write_frame(frame)]
    /\ read' = NoRead
    /\ UNCHANGED <<dbVars, purgeVars, serverVars, connVars, handler, taskVars, subVars, now>>

\* parse_frame at the other end, on the bytes written: read holds what it
\* returns
ParseFrame ==
    /\ wrote # NoWrite
    /\ read' = [c |-> 0, frame |-> parse_frame(wrote.bytes)]
    /\ wrote' = NoWrite
    /\ UNCHANGED <<dbVars, purgeVars, serverVars, connVars, handler, taskVars, subVars, now>>

InitWire == handler = <<>> /\ Init

NextWire == (\E frame \in WireFrames : WriteFrame(frame)) \/ ParseFrame

SpecWire == InitWire /\ [][NextWire]_vars

\* Deadlines: two clients that set keys, and the clock
SetClients == <<SetRequests, SetRequests>>

InitSet == handler = [c \in DOMAIN SetClients |-> "none"] /\ Init

NextSet == Handlers(SetClients) \/ Tick

SpecSet == InitSet /\ [][NextSet]_vars

\* Read errors, with client c sending the bytes of B[c] before it goes
Faults(B) ==
    \/ \E c \in Conns : \E buf \in B[c] : HandlerReadFails(c, buf)
    \/ \E c \in Conns : \E buf \in B[c] : SubscribeReadFails(c, buf)

\* The shutdown of the server
Shutdown ==
    \/ Signal
    \/ \E c \in Conns : HandlerShutdown(c)
    \/ \E c \in Conns : SubscribeShutdown(c)
    \/ ServerReturns

\* More clients than permits, one of them faulty, and the shutdown
CapClients ==
    <<FaultyRequests, NeighbourRequests, {Request(<<GET, <<"a">>>>)},
      {Request(<<GET, <<"a">>>>)}, {Request(<<GET, <<"a">>>>)}>>

CapStreams == <<BrokenStreams, {}, {}, {}, {}>>

InitCap == handler = [c \in DOMAIN CapClients |-> "none"] /\ Init

NextCap == Server(CapClients) \/ Faults(CapStreams) \/ Shutdown

SpecCap == InitCap /\ [][NextCap]_vars

\* The shutdown under a fair scheduler: a client in normal mode and one that
\* subscribes.  A task that can go on does; a select! with the shutdown
\* among its ready branches, which picks one of them at random, does not
\* pass it over time and again.
DownClients ==
    <<{Request(<<GET, <<"a">>>>), Request(<<PUBLISH, <<"c">>, <<"m">>>>)},
      FollowerRequests>>

InitDown == handler = [c \in DOMAIN DownClients |-> "none"] /\ Init

NextDown == Server(DownClients) \/ Shutdown

FairDown ==
    /\ WF_vars(ServerReturns)
    /\ \A c \in DOMAIN DownClients :
        /\ WF_vars(SubscribeToChannel(c))
        /\ WF_vars(SubscribeInsert(c))
        /\ WF_vars(UnsubscribeChannel(c))
        /\ SF_vars(HandlerShutdown(c))
        /\ SF_vars(SubscribeShutdown(c))

\* (A handler in the middle of a command is taken to get on with it: the
\* writes to its socket complete.)
SpecDown == InitDown /\ [][NextDown]_vars /\ FairDown

\* Delivery under a fair scheduler: a publisher and one follower.  A handler
\* task that can go on does, and StreamMap's poll, which starts at a random
\* stream, does not pass over a stream that is ready time and again.
LiveClients ==
    <<{Request(<<PUBLISH, <<"c">>, <<"m">>>>),
       Request(<<PUBLISH, <<"c">>, <<"n">>>>)},
      FollowerRequests>>

InitLive == handler = [c \in DOMAIN LiveClients |-> "none"] /\ Init

NextLive == Server(LiveClients)

SubscribeMessageOf(c, k) ==
    /\ SubscribeMessage(c)
    /\ \E i \in 1..Len(subscriptions[c]) :
        subscriptions[c][i].channel = k /\ StreamNext(c, i)

FairLive ==
    \A c \in DOMAIN LiveClients :
        /\ WF_vars(SubscribeToChannel(c))
        /\ WF_vars(SubscribeInsert(c))
        /\ WF_vars(UnsubscribeChannel(c))
        /\ \A k \in Channels : SF_vars(SubscribeMessageOf(c, k))

SpecLive == InitLive /\ [][NextLive]_vars /\ FairLive

\* Concurrent publishers: two clients that publish to one channel, each its
\* own message, and two that follow the channel
OrderClients ==
    <<{Request(<<PUBLISH, <<"c">>, <<"m">>>>)},
      {Request(<<PUBLISH, <<"c">>, <<"n">>>>)},
      FollowerRequests, FollowerRequests>>

InitOrder == handler = [c \in DOMAIN OrderClients |-> "none"] /\ Init

NextOrder == Server(OrderClients)

SpecOrder == InitOrder /\ [][NextOrder]_vars

\* ------------------------------------------------------------ properties

\* The step is a turn of Handler::run on connection c, which reads the
\* frame read'.frame
Serves(c) == handler[c] = "run" /\ read'.c = c

\* The step is a turn of the loop of Subscribe::apply on connection c, which
\* reads the frame read'.frame
ServesSubscribed(c) == handler[c] = "subscribe" /\ read'.c = c

\* The first word of a request
Word(frame) ==
    IF frame.t = "Array" /\ Len(frame.a) > 0 /\ frame.a[1].t = "Bulk"
    THEN frame.a[1].b ELSE <<>>

\* The last step wrote this frame to connection c
Wrote(c, frame) == wrote = [c |-> c, bytes |-> write_frame(frame)]

\* The value a key has in the store
Stored(k) == IF k \in DOMAIN entries THEN Some(entries[k].data) ELSE None

\* The entry of k is due: purge_expired_keys removes it
Expired(k) ==
    /\ k \in DOMAIN entries
    /\ IsSome(entries[k].expires_at)
    /\ Unwrap(entries[k].expires_at) <= now

\* frame is a well-formed SET of k
IsSetOf(frame, k) ==
    /\ Decoded[frame].ok
    /\ Decoded[frame].cmd.name = SetName
    /\ Decoded[frame].cmd.key = k

\* The channels connection c has in its StreamMap
Subscriptions(c) ==
    {subscriptions[c][i].channel : i \in 1..Len(subscriptions[c])}

\* Connection c holds a receiver of channel k: in its StreamMap, or about
\* to be inserted into it
Subscribed(c, k) ==
    \/ k \in Subscriptions(c)
    \/ IsSome(receiver[c]) /\ Head(channels[c]) = k

\* The values connection c has yet to receive on channel k
Queue(c, k) ==
    IF k \in Subscriptions(c)
    THEN subscriptions[c][CHOOSE i \in 1..Len(subscriptions[c]) :
                            subscriptions[c][i].channel = k].rx.q
    ELSE <<>>

\* The receiver of c on k has lost values to the capacity of the queue
Lagging(c, k) ==
    \E i \in 1..Len(subscriptions[c]) :
        subscriptions[c][i].channel = k /\ subscriptions[c][i].rx.lagged

MessageFrame(k, m) == Array(<<Bulk(MessageWord), Bulk(k), Bulk(m)>>)
SubscribeReply(k, n) == Array(<<Bulk(SubscribeWord), Bulk(k), Integer(n)>>)
UnsubscribeReply(k, n) == Array(<<Bulk(UnsubscribeWord), Bulk(k), Integer(n)>>)

\* C1: a SET of K to V is acknowledged with OK and leaves V stored for K; a
\* GET of K, from any connection, replies Bulk of the value stored for K;
\* and the value stored for K changes only in a step that is a SET of K or
\* the purge of K once it is due.  So after SET K V every GET K replies
\* Bulk(V) until a SET of K or the expiration of K, whatever other commands
\* are served in between.
C1_Step ==
    /\ \A c \in Conns : \A k \in Keys :
        Serves(c) =>
            LET res == Decoded[read'.frame]
            IN  /\ IsSetOf(read'.frame, k) =>
                       /\ Write(c, Simple(OkWord))
                       /\ Stored(k)' = Some(res.cmd.value)
                /\ (res.ok /\ res.cmd.name = GetName /\ res.cmd.key = k
                           /\ IsSome(Stored(k))) =>
                       Write(c, Bulk(Unwrap(Stored(k))))
    /\ \A k \in Keys :
        Stored(k)' # Stored(k) =>
            \/ \E c \in Conns : Serves(c) /\ IsSetOf(read'.frame, k)
            \/ PurgeKeys /\ Expired(k)

C1_RoundTrip == [][C1_Step]_vars

\* C1: connection 2 reads Bulk("x") for key a, which only connection 1 sets
\* to x, after it has set key b itself
C1_Witness ==
    /\ read = [c |-> 2, frame |-> Request(<<GET, <<"a">>>>)]
    /\ Wrote(2, Bulk(<<"x">>))
    /\ Stored(<<"b">>) = Some(<<"x">>)

\* C2: a GET of a key the store does not hold writes the five bytes $-1\r\n
\* and leaves the handler serving the connection
C2_NullBytes ==
    [][\A c \in Conns : \A k \in Keys :
        (/\ k \notin DOMAIN entries
         /\ Serves(c)
         /\ read'.frame = Request(<<GET, k>>)) =>
            /\ wrote' = [c |-> c, bytes |-> <<"$", "-", "1", CR, LF>>]
            /\ handler'[c] = "run"]_vars

\* C3: a GET of a key whose time to live has run out, served when the
\* background task has nothing left to do, does not reply the value: it
\* writes what the server writes for Null
C3_Expired ==
    [][\A c \in Conns : \A k \in Keys :
        (/\ Expired(k)
         /\ ~PurgeRunnable
         /\ Serves(c)
         /\ read'.frame = Request(<<GET, k>>)) =>
            wrote' = [c |-> c, bytes |-> write_frame(Null)]]_vars

\* C4: in normal mode PING is answered Simple("PONG"), PING with a message
\* Bulk(message), and the handler goes on serving the connection
C4_Pong ==
    [][\A c \in Conns :
        /\ (Serves(c) /\ read'.frame = Request(<<PING>>)) =>
               Write(c, Simple(PongWord)) /\ handler'[c] = "run"
        /\ (Serves(c)
              /\ read'.frame = Request(<<<<"p","i","n","g">>, <<"h","i">>>>)) =>
               Write(c, Bulk(<<"h","i">>)) /\ handler'[c] = "run"]_vars

\* The first words the clients send that name no command, each with the
\* name the reply quotes
UnknownWords ==
    {<<<<"F","O","O">>, <<"f","o","o">>>>,
     <<<<"f","o","o">>, <<"f","o","o">>>>,
     <<<<"G","e","t","s">>, <<"g","e","t","s">>>>}

\* C5: a request whose first word names no command is answered with
\* Error("Err: unknown command '<name>'"), the name in lower case, whatever
\* follows the word; the database and the subscriptions are left as they
\* were and the handler goes on serving the connection
C5_Unknown ==
    [][\A c \in Conns : \A w \in UnknownWords :
        (Serves(c) /\ Word(read'.frame) = w[1]) =>
            /\ Write(c, Error(ErrUnknown \o <<"'">> \o w[2] \o <<"'">>))
            /\ UNCHANGED <<entries, expirations, next_id, pub_sub, shutdown,
                           subVars>>
            /\ handler'[c] = "run"]_vars

\* C5: "foo 1 <null>" was answered on connection 1 with the error quoting
\* 'foo', with key a in the store and the handler still running
C5_Witness ==
    /\ read = [c |-> 1,
               frame |-> Array(<<Bulk(<<"f","o","o">>), Integer(1), Null>>)]
    /\ Wrote(1, Error(ErrUnknown \o <<"'","f","o","o","'">>))
    /\ <<"a">> \in DOMAIN entries
    /\ handler[1] = "run"

\* C6: the integer replied to PUBLISH is the number of connections that
\* hold a subscription to the channel when the publish takes the lock
C6_Count ==
    [][\A c \in Conns : \A k \in Channels :
        (/\ Serves(c)
         /\ Word(read'.frame) = PUBLISH
         /\ read'.frame.a[2] = Bulk(k)) =>
            Write(c, Integer(Cardinality({d \in Conns : Subscribed(d, k)})))
      ]_vars

\* The next value connection c is to receive on channel k is m
NextUp(c, k, m) ==
    /\ handler[c] = "subscribe"
    /\ Queue(c, k) # <<>>
    /\ Head(Queue(c, k)) = m

\* Connection c is subscribing to k once more: the receiver it holds in its
\* map is about to be replaced
Resubscribing(c, k) ==
    /\ k \in Subscriptions(c)
    /\ IsSome(receiver[c])
    /\ Head(channels[c]) = k

\* Delivery with re-subscription set aside: a message a subscribed connection
\* has yet to receive is eventually written to it as a message frame, unless
\* the connection closes, unsubscribes from the channel, falls behind the
\* capacity of the queue or subscribes to the channel once more
DeliveredUnlessResubscribing ==
    \A c \in DOMAIN LiveClients : \A k \in Channels : \A m \in {<<"m">>, <<"n">>} :
        NextUp(c, k, m) ~>
            \/ Wrote(c, MessageFrame(k, m))
            \/ handler[c] # "subscribe"
            \/ k \notin Subscriptions(c)
            \/ Lagging(c, k)
            \/ Resubscribing(c, k)

\* C7: a message a subscribed connection has yet to receive is eventually
\* written to it as a message frame, provided the connection stays open and
\* subscribed to the channel and does not fall behind the capacity of the
\* queue
C7_Delivered ==
    \A c \in DOMAIN LiveClients : \A k \in Channels : \A m \in {<<"m">>, <<"n">>} :
        NextUp(c, k, m) ~>
            \/ Wrote(c, MessageFrame(k, m))
            \/ handler[c] # "subscribe"
            \/ k \notin Subscriptions(c)
            \/ Lagging(c, k)

\* C8: a message frame is written to a connection only for a channel in its
\* subscription map; the step that writes the unsubscribe reply for a
\* channel leaves the channel out of the map; and a channel enters the map
\* only in the step that writes the subscribe reply for it
C8_Step ==
    \A c \in Conns : \A k \in Channels :
        /\ (wrote'.c = c
              /\ \E m \in {<<"m">>, <<"n">>} : Write(c, MessageFrame(k, m))) =>
               k \in Subscriptions(c) /\ k \in Subscriptions(c)'
        /\ (wrote'.c = c
              /\ \E n \in 0..2 : Write(c, UnsubscribeReply(k, n))) =>
               k \notin Subscriptions(c)'
        /\ (k \notin Subscriptions(c) /\ k \in Subscriptions(c)') =>
               \E n \in 1..2 : Write(c, SubscribeReply(k, n))

C8_OnlySubscribed == [][C8_Step]_vars

\* C8: the unsubscribe reply for channel c was written to connection 2,
\* which stays subscribed to channel d and has a message of d to receive
C8_Witness ==
    /\ Wrote(2, UnsubscribeReply(<<"c">>, 1))
    /\ Subscriptions(2) = {<<"d">>}
    /\ Queue(2, <<"d">>) # <<>>

\* The commands of the key-value store and of publishing, each with the
\* name the reply quotes
StoreWords ==
    {<<GET, <<"g","e","t">>>>,
     <<SET, <<"s","e","t">>>>,
     <<PUBLISH, <<"p","u","b","l","i","s","h">>>>}

\* C9: a GET, SET or PUBLISH a connection sends while it is in subscribed
\* mode is answered with Error("Err: unknown command '<name>'"), changes
\* neither the database nor a channel nor a subscription, and leaves the
\* connection open in subscribed mode
C9_Isolation ==
    [][\A c \in Conns : \A w \in StoreWords :
        (ServesSubscribed(c) /\ Word(read'.frame) = w[1]) =>
            /\ Write(c, Error(ErrUnknown \o <<"'">> \o w[2] \o <<"'">>))
            /\ UNCHANGED <<dbVars, subVars>>
            /\ handler'[c] = "subscribe"]_vars

\* C9: connection 2, subscribed to channel c, was answered the error that
\* quotes 'set' while key a still has the value connection 1 gave it
C9_Witness ==
    /\ Wrote(2, Error(ErrUnknown \o <<"'","s","e","t","'">>))
    /\ handler[2] = "subscribe"
    /\ <<"c">> \in Subscriptions(2)
    /\ Stored(<<"a">>) = Some(<<"x">>)

\* The channels of a SUBSCRIBE request
Requested(frame) == [i \in 1..(Len(frame.a) - 1) |-> frame.a[i + 1].b]

\* C10: a SUBSCRIBE, in normal or in subscribed mode, queues its channels
\* in the order of the request; each is then inserted and answered in
\* turn with Array("subscribe", channel, n), n the number of distinct
\* channels in the map after the insertion, which is the number before it
\* when the channel was there already; and no other step writes a
\* subscribe reply
C10_Step ==
    \A c \in Conns :
        /\ ((Serves(c) \/ ServesSubscribed(c))
                /\ Word(read'.frame) = SUBSCRIBE) =>
               channels'[c] = Requested(read'.frame)
        /\ SubscribeInsert(c) =>
            LET k == Head(channels[c])
                n == Cardinality(Subscriptions(c)')
            IN  /\ Write(c, SubscribeReply(k, n))
                /\ Subscriptions(c)' = Subscriptions(c) \cup {k}
                /\ Len(subscriptions'[c]) = n
                /\ k \in Subscriptions(c) => n = Cardinality(Subscriptions(c))
                /\ channels'[c] = Tail(channels[c])
        /\ (wrote'.c = c
              /\ \E k \in Channels : \E n \in 0..3 :
                     Write(c, SubscribeReply(k, n))) =>
               SubscribeInsert(c)

C10_Replies == [][C10_Step]_vars

\* C10: connection 2, subscribed to c and d, has been answered for c with
\* the count 2 and has d before c in its map, as after SUBSCRIBE d c
C10_Witness ==
    /\ Wrote(2, SubscribeReply(<<"c">>, 2))
    /\ StreamKeys(subscriptions[2]) = <<<<"d">>, <<"c">>>>

\* The three channels of the unsubscribing client
Channels3 == Channels \cup {<<"e">>}

\* frame is a well-formed UNSUBSCRIBE
IsUnsubscribe(frame) ==
    Decoded[frame].ok /\ Decoded[frame].cmd.name = UnsubscribeName

\* C11: in subscribed mode an UNSUBSCRIBE that names channels has exactly
\* these channels unsubscribed, in the order of the request, and nothing is
\* removed yet; then, one channel at a time from the first, the channel is
\* removed from the subscription map (nothing is, when it is not there) and
\* the reply unsubscribe, channel, n is written, n the number of channels
\* still in the map; the other subscriptions and what they have yet to
\* receive are left as they are
C11_Step ==
    \A c \in Conns :
        /\ (ServesSubscribed(c) /\ IsUnsubscribe(read'.frame)
               /\ Decoded[read'.frame].cmd.channels # <<>>) =>
              /\ unsubscribing'[c] = Decoded[read'.frame].cmd.channels
              /\ subscriptions'[c] = subscriptions[c]
              /\ wrote'.c # c
        /\ (handler[c] = "subscribe" /\ unsubscribing[c] # <<>>
               /\ (wrote'.c = c \/ unsubscribing'[c] # unsubscribing[c]
                      \/ Subscriptions(c)' # Subscriptions(c))) =>
              LET k    == Head(unsubscribing[c])
                  rest == Subscriptions(c) \ {k}
              IN  /\ Write(c, UnsubscribeReply(k, Cardinality(rest)))
                  /\ Subscriptions(c)' = rest
                  /\ unsubscribing'[c] = Tail(unsubscribing[c])
                  /\ \A j \in rest : Queue(c, j)' = Queue(c, j)

C11_Unsubscribe == [][C11_Step]_vars

\* C11: connection 2, subscribed to c, d and e with a message of e to
\* receive, was sent UNSUBSCRIBE d c: the reply for c, with one channel
\* left, was written and e is still subscribed, its message still to come
C11_Witness ==
    /\ Wrote(2, UnsubscribeReply(<<"c">>, 1))
    /\ Subscriptions(2) = {<<"e">>}
    /\ Queue(2, <<"e">>) = <<<<"m">>>>
    /\ unsubscribing[2] = <<>>

\* C12: when a subscribed connection sends UNSUBSCRIBE without channels, the
\* channels unsubscribed, one reply each, are the channels it is subscribed
\* to, in the order in which they were subscribed (the replies are then
\* written from the first on, each with the number of channels left)
C12_Order ==
    [][\A c \in Conns :
        (ServesSubscribed(c) /\ IsUnsubscribe(read'.frame)
           /\ Decoded[read'.frame].cmd.channels = <<>>) =>
          unsubscribing'[c] = subscribed[c]]_vars

\* The connections whose handler task is running
Running == {c \in Conns : handler[c] \in {"run", "subscribe"}}

\* C13: once the shutdown signal has fired no connection is accepted, every
\* handler, in normal mode or in subscribed mode, eventually returns, and
\* server::run eventually returns
C13_Shutdown ==
    /\ [][server # "run" =>
            \A c \in Conns : handler[c] = "none" => handler'[c] = "none"]_vars
    /\ \A c \in DOMAIN DownClients : (server # "run") ~> (c \notin Running)
    /\ (server # "run") ~> (server = "returned")

\* C13: the signal has fired with a handler in normal mode and a handler in
\* subscribed mode, subscribed to c
C13_Witness ==
    /\ server = "drain"
    /\ handler[1] = "run"
    /\ handler[2] = "subscribe"
    /\ Subscriptions(2) = {<<"c">>}

\* C14: server::run has not returned while a handler task is running: every
\* running handler holds a sender of the drain channel, the Listener holds
\* one until the select! of run has ended, and run returns only with no
\* sender left
C14_Drain ==
    /\ \A c \in Running : c \in shutdown_complete_tx
    /\ server = "run" => 0 \in shutdown_complete_tx
    /\ server = "returned" => shutdown_complete_tx = {} /\ Running = {}

\* C14: server::run has returned, after the handlers of five connections
\* have
C14_Witness ==
    /\ server = "returned"
    /\ \A c \in Conns : handler[c] \in {"done", "err"}
    /\ handler[1] = "err"

\* C15: no more than MAX_CONNECTIONS handlers are running, and a connection
\* is accepted only while fewer are
C15_Cap ==
    /\ [](Cardinality(Running) <= MAX_CONNECTIONS)
    /\ [][\A c \in Conns :
            (handler[c] = "none" /\ handler'[c] # "none") =>
                Cardinality(Running) < MAX_CONNECTIONS]_vars

\* C15: MAX_CONNECTIONS handlers are running, no permit is left and a fifth
\* connection waits to be accepted
C15_Witness ==
    /\ Cardinality(Running) = MAX_CONNECTIONS
    /\ limit_connections = 0
    /\ server = "run"
    /\ \E c \in Conns : handler[c] = "none"

\* C16: a step in which the handler of a connection ends with an error (or
\* panics) writes nothing, leaves every other connection, its handler and
\* its subscriptions, as they are, leaves the database and its background
\* task as they are, leaves server::run where it is and hands the permit
\* back, so that the listener can accept; and a GET on a connection is
\* answered from the database, whatever happened to other connections
C16_Step ==
    /\ \A c \in Running :
        handler'[c] \in {"err", "panic"} =>
            /\ \A d \in Conns \ {c} :
                /\ handler'[d] = handler[d]
                /\ channels'[d] = channels[d]
                /\ subscriptions'[d] = subscriptions[d]
                /\ unsubscribing'[d] = unsubscribing[d]
                /\ receiver'[d] = receiver[d]
            /\ wrote' = NoWrite
            /\ UNCHANGED <<dbVars, purgeVars, server>>
            /\ limit_connections' = limit_connections + 1
            /\ limit_connections' > 0
    /\ \A d \in Conns : \A k \in Keys :
        (Serves(d) /\ read'.frame = Request(<<GET, k>>)) =>
            /\ Write(d, IF IsSome(Stored(k)) THEN Bulk(Unwrap(Stored(k)))
                         ELSE Null)
            /\ handler'[d] = "run"

C16_Isolation == [][C16_Step]_vars

\* C16: the handler of connection 1 ended with an error after a SET of a to
\* x; connection 3 was accepted and connection 2 has its GET of a answered
\* with x
C16_Witness ==
    /\ handler[1] = "err"
    /\ handler[3] = "run"
    /\ server = "run"
    /\ read = [c |-> 2, frame |-> Request(<<GET, <<"a">>>>)]
    /\ Wrote(2, Bulk(<<"x">>))

\* Each pair of expirations is the id and the deadline of the entry its key
\* has now, and each entry with a deadline has its pair
Supplanted ==
    /\ \A p \in DOMAIN expirations :
        /\ expirations[p] \in DOMAIN entries
        /\ entries[expirations[p]].id = p[2]
        /\ entries[expirations[p]].expires_at = Some(p[1])
    /\ \A k \in DOMAIN entries :
        IsSome(entries[k].expires_at) =>
            <<Unwrap(entries[k].expires_at), entries[k].id>> \in DOMAIN expirations

\* C17: after a Db::set the entry of the key is the new one, whole: the new
\* id, the new value and the new deadline or none, the pair of the entry it
\* replaced being gone from expirations; an entry changes in no other way,
\* and a key leaves the database only once the deadline its entry has now
\* has passed, so never because of a deadline it had before and never when
\* its entry has none
C17_Step ==
    \A k \in Keys :
        /\ (k \in DOMAIN entries' /\ (k \notin DOMAIN entries
                                         \/ entries'[k] # entries[k])) =>
              /\ next_id' = next_id + 1
              /\ entries'[k].id = next_id
              /\ entries'[k].data \in DbValues
              /\ \E expire \in DbExpires :
                    entries'[k].expires_at = SetWhen(expire)
              /\ \A j \in Keys \ {k} :
                    /\ (j \in DOMAIN entries') = (j \in DOMAIN entries)
                    /\ j \in DOMAIN entries => entries'[j] = entries[j]
        /\ (k \in DOMAIN entries /\ k \notin DOMAIN entries') => Expired(k)

C17_Replaces == [](Supplanted) /\ [][C17_Step]_vars

\* C17: key a was set with a deadline of one millisecond and then set again
\* without one; the deadline has passed, the background task has looked for
\* keys to purge, and a is there with its second value
C17_Witness ==
    /\ now >= 1
    /\ purge_pc = "notified"
    /\ ~permit
    /\ <<"a">> \in DOMAIN entries
    /\ entries[<<"a">>] = [id |-> 1, data |-> <<"y">>, expires_at |-> None]
    /\ expirations = Empty

\* C18: parse_frame on the bytes write_frame wrote for a frame, be it a
\* simple string, an error, an integer, null, a bulk string or an array of
\* these, arrays among them, returns that frame and has read all the bytes
C18_RoundTrip ==
    [][\A frame \in WireFrames :
        (wrote = [c |-> 0, bytes |-> write_frame(frame)] /\ wrote' = NoWrite) =>
            read'.frame = Ok(frame, Len(wrote.bytes) + 1)]_vars

\* C19: an UNSUBSCRIBE read by a handler in normal mode ends the handler
\* with an error: no frame is written, and the database and the
\* subscriptions of every connection are left as they are
C19_Step ==
    \A c \in Conns :
        (Serves(c) /\ IsUnsubscribe(read'.frame)) =>
            /\ handler'[c] = "err"
            /\ wrote' = NoWrite
            /\ UNCHANGED dbVars
            /\ subscriptions' = subscriptions
            /\ \A d \in Conns \ {c} : handler'[d] = handler[d]

C19_Unsubscribe == [][C19_Step]_vars

\* C19: connection 3, in normal mode, has sent UNSUBSCRIBE c and its handler
\* has ended with an error; connection 2 is subscribed to c, with a message
\* to receive
C19_Witness ==
    /\ read = [c |-> 3, frame |-> Request(<<UNSUBSCRIBE, <<"c">>>>)]
    /\ handler[3] = "err"
    /\ wrote = NoWrite
    /\ Subscriptions(2) = {<<"c">>}
    /\ Queue(2, <<"c">>) = <<<<"m">>>>

\* The words of a request, and how its first word and an option may be
\* written
Words(frame) == [i \in 1..Len(frame.a) |-> frame.a[i].b]
SetWords == {SET, <<"s","e","t">>}
ExWords  == {<<"E","X">>, <<"e","x">>, <<"E","x">>, <<"e","X">>}
PxWords  == {<<"P","X">>, <<"p","x">>, <<"P","x">>, <<"p","X">>}

\* The entry a SET of words w leaves for its key, with this deadline
SetsEntry(c, w, expires_at) ==
    /\ w[2] \in DOMAIN entries'
    /\ entries'[w[2]] = [id |-> next_id, data |-> w[3], expires_at |-> expires_at]
    /\ Write(c, Simple(OkWord))
    /\ handler'[c] = "run"

\* C20: SET K V EX n stores K with V and the deadline now + n seconds, SET K
\* V PX n with the deadline now + n milliseconds, the option in either
\* case, and SET K V stores K with V and no deadline; each is answered with
\* OK.  With another word for the option the command is not decoded:
\* nothing is stored or written and the handler ends with an error.
C20_Step ==
    \A c \in Conns :
        (Serves(c) /\ read'.frame \in SetRequests
           /\ Words(read'.frame)[1] \in SetWords) =>
            LET w == Words(read'.frame)
            IN  /\ Len(w) = 3 => SetsEntry(c, w, None)
                /\ \A n \in 0..9 :
                    (Len(w) = 5 /\ w[4] \in ExWords /\ w[5] = Decimal(n)) =>
                        SetsEntry(c, w, Some(now + n * 1000))
                /\ \A n \in 0..9 :
                    (Len(w) = 5 /\ w[4] \in PxWords /\ w[5] = Decimal(n)) =>
                        SetsEntry(c, w, Some(now + n))
                /\ (Len(w) > 3 /\ w[4] \notin ExWords \cup PxWords) =>
                        /\ handler'[c] = "err"
                        /\ wrote' = NoWrite
                        /\ UNCHANGED <<entries, expirations, next_id>>

C20_Deadline == [][C20_Step]_vars

\* C20: one second after the start of the server key b was set with eX 2,
\* and key a, before, with PX 1
C20_Witness ==
    /\ read = [c |-> 2, frame |->
                   Request(<<SET, <<"b">>, <<"y">>, <<"e","X">>, <<"2">>>>)]
    /\ Wrote(2, Simple(OkWord))
    /\ <<"b">> \in DOMAIN entries
    /\ entries[<<"b">>].expires_at = Some(3000)
    /\ <<"a">> \in DOMAIN entries
    /\ entries[<<"a">>].expires_at = Some(1)

\* The frames that answer a request read in normal mode (subscribed is
\* FALSE) or by the loop of Subscribe::apply; a SUBSCRIBE and an UNSUBSCRIBE
\* are answered channel by channel, after the step that reads them
Answers(frame, inSubscribe) ==
    LET res == Decoded[frame]
    IN  IF ~res.ok THEN {}
        ELSE IF res.cmd.name \in {SubscribeName, UnsubscribeName} THEN {}
        ELSE IF IsUnknown(res.cmd) \/ inSubscribe
        THEN {Error(ErrUnknown \o <<"'">> \o res.cmd.name \o <<"'">>)}
        ELSE CASE res.cmd.name = GetName ->
                    {Null} \cup {Bulk(v) : v \in DbValues}
               [] res.cmd.name = SetName -> {Simple(OkWord)}
               [] res.cmd.name = PublishName ->
                    {Integer(n) : n \in 0..Cardinality(Conns)}
               [] res.cmd.name = PingName ->
                    {IF IsSome(res.cmd.msg) THEN Bulk(Unwrap(res.cmd.msg))
                     ELSE Simple(PongWord)}

\* C21: on a connection a frame is read only when every reply to the frames
\* read before it has been written (requests are served one at a time); what
\* the step that reads a frame writes, if anything, answers that frame; the
\* channels of a SUBSCRIBE or UNSUBSCRIBE are those of the frame just read,
\* and are then answered one at a time from the first, before the next frame
\* is read; the only other frames written are pushed messages, which leave
\* the channels yet to be answered as they are.  So the replies are written
\* in the order of the requests, in normal and in subscribed mode.
C21_Step ==
    \A c \in Conns :
        /\ read'.c = c =>
            /\ handler[c] \in {"run", "subscribe"}
            /\ channels[c] = <<>> /\ unsubscribing[c] = <<>>
            /\ receiver[c] = None
            /\ wrote'.c \in {0, c}
            /\ wrote'.c = c =>
                 \E reply \in Answers(read'.frame, handler[c] = "subscribe") :
                     Write(c, reply)
            /\ channels'[c] # <<>> =>
                 /\ Word(read'.frame) = SUBSCRIBE
                 /\ channels'[c] = Requested(read'.frame)
            /\ unsubscribing'[c] # <<>> =>
                 /\ IsUnsubscribe(read'.frame)
                 /\ unsubscribing'[c] \in
                      {Decoded[read'.frame].cmd.channels,
                       StreamKeys(subscriptions[c])}
        /\ (read'.c # c /\ wrote'.c = c) =>
            \/ /\ \E k \in Channels : \E m \in {<<"m">>, <<"n">>} :
                     Write(c, MessageFrame(k, m))
               /\ channels[c] = <<>> /\ unsubscribing[c] = <<>>
               /\ UNCHANGED <<channels, unsubscribing>>
            \/ /\ channels[c] # <<>>
               /\ unsubscribing[c] = <<>>
               /\ \E n \in 1..2 : Write(c, SubscribeReply(Head(channels[c]), n))
               /\ channels'[c] = Tail(channels[c])
               /\ UNCHANGED unsubscribing
            \/ /\ unsubscribing[c] # <<>>
               /\ \E n \in 0..2 :
                     Write(c, UnsubscribeReply(Head(unsubscribing[c]), n))
               /\ unsubscribing'[c] = Tail(unsubscribing[c])
               /\ UNCHANGED channels
        /\ (read'.c # c /\ wrote'.c # c /\ handler'[c] = "subscribe") =>
            /\ channels'[c] = channels[c]
            /\ unsubscribing'[c] = unsubscribing[c]

C21_Order == [][C21_Step]_vars

\* C21: connection 2, in subscribed mode after SUBSCRIBE d c, has been
\* written the reply for d, the first channel of the request, while a
\* message of d is already there for it, and has the reply for c to come
C21_Witness ==
    /\ handler[2] = "subscribe"
    /\ Wrote(2, SubscribeReply(<<"d">>, 1))
    /\ channels[2] = <<<<"c">>>>
    /\ Queue(2, <<"d">>) = <<<<"n">>>>

\* a is what is left of b once its first values are taken
Suffix(a, b) ==
    Len(a) <= Len(b) /\ a = SubSeq(b, Len(b) - Len(a) + 1, Len(b))

\* What the receivers connection c holds of channel k have yet to receive:
\* the one in its StreamMap and the one about to be inserted into it
Queues(c, k) ==
    {subscriptions[c][i].rx.q : i \in {j \in 1..Len(subscriptions[c]) :
                                         subscriptions[c][j].channel = k}}
    \cup (IF IsSome(receiver[c]) /\ Head(channels[c]) = k
          THEN {Unwrap(receiver[c]).q} ELSE {})

\* C22: what two connections subscribed to a channel have yet to receive of
\* it is one and the same run of the messages sent to the channel, the one
\* connection being further on in it than the other; and a connection is
\* written the messages of a channel from the first it has yet to receive
\* on, one at a time.  So the messages both connections receive come in the
\* same order on both, however the publishers interleave.
C22_SameOrder ==
    /\ [](\A c, d \in Conns : \A k \in Channels :
            \A p \in Queues(c, k) : \A q \in Queues(d, k) :
                Suffix(p, q) \/ Suffix(q, p))
    /\ [][\A c \in Conns : \A k \in Channels :
            (wrote'.c = c /\ \E m \in {<<"m">>, <<"n">>} :
                                 Write(c, MessageFrame(k, m))) =>
                /\ Queue(c, k) # <<>>
                /\ Write(c, MessageFrame(k, Head(Queue(c, k))))
                /\ Queue(c, k)' = Tail(Queue(c, k))]_vars

\* C22: with both publishers connected, connections 3 and 4 follow channel
\* c; n was published after m, connection 4 has been written m and has n to
\* come, connection 3 has both to come, m before n
C22_Witness ==
    /\ handler[1] = "run" /\ handler[2] = "run"
    /\ Wrote(4, MessageFrame(<<"c">>, <<"m">>))
    /\ Queue(4, <<"c">>) = <<<<"n">>>>
    /\ Queue(3, <<"c">>) = <<<<"m">>, <<"n">>>>

\* C23: a receiver that has lost values to the capacity of the queue belongs
\* to a connection in subscribed mode and has a full queue to receive; the
\* step in which it falls behind writes nothing to its connection and leaves
\* the connection open with the subscriptions it had (a receiver that fell
\* behind before subscribe_to_channel put it into the map lags from the step
\* that puts it there); and it stops lagging
\* only when its connection is written the oldest message left in the queue,
\* as a message frame and nothing else, the rest of the queue still to come
\* and the connection open and subscribed as before - or when the client
\* itself unsubscribes from the channel, subscribes to it again or has the
\* connection end
C23_Step ==
    \A c \in Conns : \A k \in Channels :
        /\ Lagging(c, k) =>
              /\ handler[c] = "subscribe"
              /\ Len(Queue(c, k)) = Capacity
        /\ (~Lagging(c, k) /\ Lagging(c, k)') =>
              \/ /\ wrote'.c # c
                 /\ handler'[c] = handler[c]
                 /\ Subscriptions(c)' = Subscriptions(c)
                 /\ Len(Queue(c, k)) = Capacity
                 /\ Queue(c, k)' =
                        Tail(Queue(c, k)) \o <<Queue(c, k)'[Capacity]>>
              \/ /\ SubscribeInsert(c)
                 /\ Head(channels[c]) = k
                 /\ Unwrap(receiver[c]).lagged
        /\ (Lagging(c, k) /\ ~Lagging(c, k)') =>
              \/ /\ Write(c, MessageFrame(k, Head(Queue(c, k))))
                 /\ Queue(c, k)' = Tail(Queue(c, k))
                 /\ handler'[c] = "subscribe"
                 /\ Subscriptions(c)' = Subscriptions(c)
              \/ UnsubscribeChannel(c) /\ Head(unsubscribing[c]) = k
              \/ SubscribeInsert(c) /\ Head(channels[c]) = k
              \/ SubscribeEof(c)
              \/ read'.c = c /\ ~Decoded[read'.frame].ok

C23_SlowConsumer == [][C23_Step]_vars

\* C23: connections 2 and 3 follow channel c and both fell behind; connection
\* 2 has since been written n, the oldest message left for it, and has m to
\* come, while connection 3 still lags with n and m to come
C23_Witness ==
    /\ Wrote(2, MessageFrame(<<"c">>, <<"n">>))
    /\ handler[2] = "subscribe"
    /\ Queue(2, <<"c">>) = <<<<"m">>>>
    /\ ~Lagging(2, <<"c">>)
    /\ Lagging(3, <<"c">>)
    /\ Queue(3, <<"c">>) = <<<<"n">>, <<"m">>>>

\* C24: whenever the mutex of the database is free, each entry with a
\* deadline t has the pair (t, id of the entry) in expirations, mapped to
\* the key of the entry, and no pair of expirations carries the id of an
\* entry without a deadline
C24_EntriesIndexed ==
    \A k \in DOMAIN entries :
        IF IsSome(entries[k].expires_at)
        THEN /\ <<Unwrap(entries[k].expires_at), entries[k].id>>
                    \in DOMAIN expirations
             /\ expirations[<<Unwrap(entries[k].expires_at), entries[k].id>>] = k
        ELSE \A p \in DOMAIN expirations : p[2] # entries[k].id

\* C24: key b was set without a deadline and key a, after it, to expire in
\* a second; the background task has looked for keys to purge and sleeps
\* until the deadline of a, whose pair is the only one in expirations
C24_Witness ==
    /\ DOMAIN entries = Keys
    /\ entries[<<"b">>].expires_at = None
    /\ entries[<<"a">>].id = 1
    /\ entries[<<"a">>].expires_at = Some(MillisPerSec)
    /\ expirations = Insert(Empty, <<MillisPerSec, 1>>, <<"a">>)
    /\ purge_pc = "select"
    /\ purge_when = MillisPerSec

\* C25: whenever the mutex of the database is free, each pair (t, id) of
\* expirations maps to a key that has an entry, with this id and the
\* deadline t: no pair is left of an entry that was replaced or purged
C25_IndexCurrent ==
    \A p \in DOMAIN expirations :
        /\ expirations[p] \in DOMAIN entries
        /\ entries[expirations[p]].expires_at = Some(p[1])
        /\ entries[expirations[p]].id = p[2]

\* C25: key a was set to expire in a millisecond and set again to expire in
\* a second; the millisecond has passed and the background task has purged:
\* the pair of the first entry is gone, a has its second entry
C25_Witness ==
    /\ now = 1
    /\ purge_pc = "select"
    /\ <<"a">> \in DOMAIN entries
    /\ entries[<<"a">>].id = 1
    /\ expirations = Insert(Empty, <<MillisPerSec + 1, 1>>, <<"a">>)

\* C26: the id of every entry, and of every pair of expirations, is below
\* next_id, and two keys never have entries with the same id; next_id never
\* goes down; a step that gives a key a new entry gives it the id next_id,
\* which no entry has, and moves next_id up by one; and next_id moves only in
\* a step that serves a SET.  So the ids issued are 0, 1, 2, ... in the order
\* in which the SETs take the lock, each different from those before it and
\* all below next_id, whichever connections the SETs come from.
C26_Ids ==
    /\ [](/\ \A k \in DOMAIN entries : entries[k].id < next_id
          /\ \A p \in DOMAIN expirations : p[2] < next_id
          /\ \A j, k \in DOMAIN entries :
                entries[j].id = entries[k].id => j = k)
    /\ [][/\ next_id' \in {next_id, next_id + 1}
          /\ \A k \in Keys :
                (k \in DOMAIN entries'
                   /\ (k \notin DOMAIN entries \/ entries'[k] # entries[k])) =>
                    /\ entries'[k].id = next_id
                    /\ next_id' = next_id + 1
          /\ next_id' # next_id =>
                \E c \in Conns : \E k \in Keys :
                    /\ Serves(c) /\ IsSetOf(read'.frame, k)
                    /\ entries'[k].id = next_id]_vars

\* C26: both connections are open; connection 1 has set key a, first, and
\* connection 2 key b, with the ids 0 and 1, and next_id is 2
C26_Witness ==
    /\ handler[1] = "run" /\ handler[2] = "run"
    /\ read = [c |-> 2, frame |->
                 Request(<<<<"s","e","t">>, <<"b">>, <<"x">>, <<"p","x">>, <<"2">>>>)]
    /\ DOMAIN entries = Keys
    /\ entries[<<"a">>] = [id |-> 0, data |-> <<"y">>, expires_at |-> Some(1)]
    /\ entries[<<"b">>].id = 1
    /\ next_id = 2

\* C27: a pair leaves expirations only when the key it maps to is set again
\* or when purge_expired_keys scans with the instant of the pair not after
\* now; a key leaves the database only in such a scan, and only when its
\* entry has a deadline that is not after now, its pair leaving with it; the
\* scan leaves every other entry as it is.  So an entry without a deadline,
\* or whose deadline is to come, is there for Db::get, which returns its
\* value.
C27_Step ==
    /\ \A p \in DOMAIN expirations \ DOMAIN expirations' :
        \/ /\ PurgeKeys
           /\ p[1] <= now
           /\ expirations[p] \notin DOMAIN entries'
        \/ /\ next_id' = next_id + 1
           /\ entries'[expirations[p]].id = next_id
    /\ \A k \in DOMAIN entries \ DOMAIN entries' :
        /\ PurgeKeys
        /\ IsSome(entries[k].expires_at)
        /\ Unwrap(entries[k].expires_at) <= now
        /\ <<Unwrap(entries[k].expires_at), entries[k].id>>
                \notin DOMAIN expirations'
    /\ PurgeKeys =>
        \A k \in Keys :
            ~Expired(k) => /\ (k \in DOMAIN entries') = (k \in DOMAIN entries)
                           /\ DbGet(k)' = DbGet(k)

C27_OnlyExpired == [][C27_Step]_vars

\* C27: keys a and b were set at the start, a to expire in a millisecond and
\* b in a second; a millisecond on the background task has scanned: a is
\* gone, b is there with its value and its pair, and the task sleeps until
\* the deadline of b
C27_Witness ==
    /\ now = 1
    /\ purge_pc = "select"
    /\ purge_when = MillisPerSec
    /\ DOMAIN entries = {<<"b">>}
    /\ IsSome(DbGet(<<"b">>))
    /\ DOMAIN expirations = {<<MillisPerSec, entries[<<"b">>].id>>}
    /\ next_id = 2

\* The least instant of the pairs of a non-empty expirations
Earliest == FirstKey(expirations)[1]

\* C28: a Db::set, while it holds the mutex, sets off one notify_one when the
\* entry it stores has a deadline and either expirations was empty when it
\* took the mutex or the deadline is before the least instant expirations
\* then had, and none when the entry has no deadline or a deadline that is
\* not before that instant; it stores no permit itself: a permit is stored
\* only by a notify_one set off before, of a call that has released the
\* mutex, and each is called once
C28_Step ==
    /\ next_id' = next_id + 1 =>
        \E k \in DOMAIN entries' :
            /\ entries'[k].id = next_id
            /\ permit' = permit
            /\ LET when == entries'[k].expires_at
               IN  IF /\ IsSome(when)
                      /\ \/ expirations = Empty
                         \/ Unwrap(when) < Earliest
                   THEN notifying' = notifying + 1
                   ELSE notifying' = notifying
    /\ (permit' /\ ~permit) =>
        /\ notifying > 0
        /\ notifying' = notifying - 1
        /\ UNCHANGED <<entries, expirations, next_id, shutdown>>
    /\ notifying' < notifying =>
        /\ notifying' = notifying - 1
        /\ permit'

C28_Signal == [][C28_Step]_vars

\* C28: key a was set to expire in a second and then key b to expire in a
\* millisecond: the second Db::set has released the mutex and has yet to
\* notify the background task, which sleeps until the deadline of a
C28_Witness ==
    /\ DOMAIN entries = Keys
    /\ entries[<<"a">>] = [id |-> 0, data |-> <<"x">>,
                           expires_at |-> Some(MillisPerSec)]
    /\ entries[<<"b">>].expires_at = Some(1)
    /\ purge_pc = "select"
    /\ purge_when = MillisPerSec
    /\ notifying = 1
    /\ ~permit

\* The background task is suspended: at the notified() it awaits when there
\* was no pair to wait for, or at its select!
Suspended == purge_pc \in {"notified", "select"}

\* No wake-up is lost: while the background task is suspended and the
\* database is not shut down, expirations is empty, or a permit is stored
\* or about to be (a call has released the mutex and is to notify), or the
\* task is at its select! and sleeps until an instant that is not after the
\* least of expirations
NoLostWakeUp ==
    (Suspended /\ ~shutdown) =>
        \/ expirations = Empty
        \/ permit
        \/ notifying > 0
        \/ purge_pc = "select" /\ purge_when <= Earliest

\* The same with a call that is yet to notify not counted
NoLostWakeUpStrict ==
    (Suspended /\ ~shutdown) =>
        \/ expirations = Empty
        \/ permit
        \/ purge_pc = "select" /\ purge_when <= Earliest

\* C29: an entry whose deadline has passed is eventually removed (or its key
\* set again), unless the database is shut down
C29_Reaped ==
    \A k \in Keys : Expired(k) ~> (~Expired(k) \/ shutdown)

\* Once the shutdown flag is set no entry and no pair is removed by the
\* background task
NoPurgeOnceShutdown ==
    [][shutdown => (PurgeKeys => UNCHANGED <<entries, expirations>>)]_vars

\* C30: once shutdown_purge_task has set the shutdown flag, the background
\* task, if it has not ended before, eventually returns from
\* purge_expired_tasks, wherever it is: at its notified(), at its select! or
\* in purge_expired_keys
C30_Exits ==
    (shutdown /\ purge_pc # "panic") ~> (purge_pc = "exit")

\* C31: while the listener runs, the shutdown flag of the database is false
\* and the background task has not returned, however many connections were
\* accepted
C31_ReaperStays ==
    server = "run" => (~shutdown /\ purge_pc # "exit")

\* The listener with its accept errors: a client that subscribes, fails or
\* panics, a client that publishes, and the shutdown
ListenClients ==
    <<{Request(<<SUBSCRIBE, <<"c">>>>), Request(<<UNSUBSCRIBE, <<"c">>>>),
       Request(<<PING>>), Request(<<<<"p","i","n","g">>, <<"h","i">>>>), Request(<<GET>>),
       Request(<<GET, <<"a">>>>),
       Request(<<SET, <<"a">>, <<"x">>>>),
       Request(<<PUBLISH, <<"c">>, <<"m">>>>)},
      {Request(<<PUBLISH, <<"c">>, <<"m">>>>)}>>

InitListen == handler = [c \in DOMAIN ListenClients |-> "none"] /\ Init

NextListen ==
    \/ AcquirePermit
    \/ \E c \in Conns : AcceptOk(c)
    \/ AcceptErr
    \/ AcceptSlept
    \/ AcceptGivesUp
    \/ \E c \in Conns : \E frame \in ListenClients[c] : HandlerFrame(c, frame)
    \/ \E c \in Conns : HandlerEof(c)
    \/ Subscribers(ListenClients)
    \/ Shutdown

SpecListen == InitListen /\ [][NextListen]_vars

\* 2 to the power n
RECURSIVE Pow2(_)
Pow2(n) == IF n = 0 THEN 1 ELSE 2 * Pow2(n - 1)

\* The sleeps of a call of accept that went through all of them
AllSleeps == <<1, 2, 4, 8, 16, 32, 64>>

\* What C32 states of one step of the listener
C32_Step ==
    \* a call of accept starts with nothing slept and backoff 1
    /\ (listener = "acquire" /\ listener' = "accept") =>
           slept' = <<>> /\ backoff' = 1
    \* an error that does not propagate makes the next sleep, twice the last
    /\ (listener = "accept" /\ listener' = "sleep") =>
           slept' = Append(slept, Pow2(Len(slept)))
    \* the error after the sleep of 64 s propagates: no sleep follows it
    /\ (listener = "accept" /\ slept = AllSleeps) => listener' # "sleep"
    \* and only that error does; the accept loop is then over
    /\ (listener # "err" /\ listener' = "err") =>
           /\ listener = "accept"
           /\ slept = AllSleeps
           /\ server' # "run"

\* C32: the sleeps of a call of accept between its consecutive errors are
\* 1 s, 2 s, 4 s, ..., none above 64 s; the error that follows the sleep of
\* 64 s propagates out of the accept loop; and every call of accept starts
\* again at 1 s
C32_Backoff ==
    /\ [](\A i \in 1..Len(slept) :
             slept[i] = Pow2(i - 1) /\ slept[i] <= MaxBackoff)
    /\ [][C32_Step]_vars

\* C32: two connections were accepted, each after errors or none, and the
\* third call of accept slept 1 s to 64 s and returned the error after
C32_Witness ==
    /\ handler[1] # "none"
    /\ handler[2] # "none"
    /\ listener = "err"
    /\ slept = AllSleeps
    /\ server = "drain"

\* Requests the normal mode serves and the subscribed mode does not know
KvWords == {GET, SET, PUBLISH}

\* What C33 states of one step and one connection
C33_Step(c) ==
    handler[c] = "subscribe" =>
        \* the handler does not go back to the loop of Handler::run
        /\ handler'[c] # "run"
        \* a GET, SET or PUBLISH is answered as an unknown command, with or
        \* without a channel left in the map
        /\ (/\ read'.c = c
            /\ Word(read'.frame) \in KvWords
            /\ Decoded[read'.frame].ok) =>
               /\ Write(c, UnknownReply(to_lowercase(Word(read'.frame))))
               /\ handler'[c] = "subscribe"
               /\ UNCHANGED <<entries, expirations, pub_sub>>
        \* the loop is left by the end of the stream, by the shutdown or
        \* with an error
        /\ handler'[c] # "subscribe" =>
               \/ SubscribeEof(c)
               \/ SubscribeShutdown(c)
               \/ handler'[c] = "err"

\* C33: a connection in subscribed mode never goes back to normal mode, not
\* even with no channel left; there GET, SET and PUBLISH are answered as
\* unknown commands; and Subscribe::apply ends only with the end of the
\* stream, an error or the shutdown
C33_Sticky == [][\A c \in Conns : C33_Step(c)]_vars

\* C33: the client has unsubscribed from its only channel, has then sent
\* GET a, and was answered that get is unknown
C33_Witness ==
    /\ handler[1] = "subscribe"
    /\ subscriptions[1] = <<>>
    /\ read = [c |-> 1, frame |-> Request(<<GET, <<"a">>>>)]
    /\ Wrote(1, UnknownReply(GetName))

\* "Err: unknown command 'ping'"
ErrUnknownPing ==
    <<"E","r","r",":"," ","u","n","k","n","o","w","n"," ",
      "c","o","m","m","a","n","d"," ","'","p","i","n","g","'">>

ReadStreams ==
    {<<"+", "O", "K", CR, LF, ":", "1", CR, LF>>,
     <<"*", "1", CR, LF, "$", "1", CR, LF, "a", CR, LF, "+", "O">>,
     <<"$", "-", "1", CR, LF, "$", "0", CR, LF, CR, LF>>,
     <<"+", "a", CR, LF, "!">>,
     <<"$", "-", "2", CR, LF>>,
     <<"+", InvalidByte, CR, LF>>,
     <<"$", "1", CR, LF, "a", "b", "c", "+", "b", CR, LF>>}

InitRead == handler = <<>> /\ Init

NextRead ==
    \/ \E bytes \in ReadStreams : PeerSends(bytes)
    \/ ReadFrame
    \/ ReadFrameParse
    \/ \E n \in 1..Len(stream) : ReadBuf(n)
    \/ ReadBufEnd
    \/ ReadFrameCancel

SpecRead == InitRead /\ [][NextRead]_vars

\* What successive calls of read_frame return for a stream that holds buf,
\* all of it in the buffer, and then ends: the frames, and what the call
\* after the last of them returns
RECURSIVE Decode(_)
Decode(buf) ==
    LET f == parse_frame(buf)
    IN  IF f.r = "ok"
        THEN LET rest == Decode(SubSeq(buf, f.pos, Len(buf)))
             IN  [frames |-> <<f.v>> \o rest.frames, end |-> rest.end]
        ELSE IF f.r = "none"
        THEN [frames |-> <<>>, end |-> IF buf = <<>> THEN "end" ELSE "reset"]
        ELSE [frames |-> <<>>, end |-> "error"]

\* read_frame has seen the peer close the stream
Closed == read_pc \in {"end", "reset"}

\* C35: when read_buf reports the end of the stream read_frame returns None
\* if and only if the buffer is empty, and a reset error if and only if the
\* buffer holds bytes, which are then the head of a frame; and the frames
\* returned before are all the frames the peer sent whole
C35_End ==
    /\ [][(read_pc = "read_buf" /\ stream = <<>> /\ read_pc' # "idle") =>
            /\ read_pc' = "end" <=> buffer = <<>>
            /\ read_pc' = "reset" <=> buffer # <<>>]_vars
    /\ [](Closed =>
            /\ frames = Decode(sent).frames
            /\ read_pc = "end" <=> buffer = <<>>
            /\ read_pc = "reset" =>
                   buffer # <<>> /\ check(buffer, 1) = Incomplete)

\* C35: the peer sent a frame and the head of another and closed: the frame
\* was returned, and the call after it failed with the reset error
C35_Witness ==
    /\ read_pc = "reset"
    /\ frames = <<Array(<<Bulk(<<"a">>)>>)>>
    /\ buffer = <<"+", "O">>

\* C36: whatever the reads the stream came in and whichever calls were
\* dropped at their read_buf, the frames returned so far followed by what
\* the bytes buffered and yet to come hold are what the bytes sent hold, and
\* a call that ends the sequence ends it the same way
C36_Chunks ==
    LET all  == Decode(sent)
        rest == Decode(buffer \o stream)
    IN  /\ all = [frames |-> frames \o rest.frames, end |-> rest.end]
        /\ read_pc \in {"end", "reset", "error"} =>
               frames = all.frames /\ read_pc = all.end

\* C36: a call of read_frame was dropped with the head of an array in the
\* buffer, its rest yet to come
C36_Witness ==
    /\ read_pc = "idle"
    /\ frames = <<>>
    /\ buffer = <<"*", "1", CR, LF, "$">>
    /\ stream = <<"1", CR, LF, "a", CR, LF, "+", "O">>

\* C37: on a buffer on which Frame::check succeeds Frame::parse succeeds and
\* leaves the cursor where check left it; and on a buffer that is one whole
\* frame, check finds every proper prefix of it incomplete
C37_Agree ==
    LET c == check(buffer, 1)
        p == parse(buffer, 1)
    IN  /\ c.r = "ok" => (p.r = "ok" /\ p.pos = c.pos)
        /\ (p.r = "ok" /\ p.pos = Len(buffer) + 1) =>
               \A n \in 0..(Len(buffer) - 1) :
                   check(SubSeq(buffer, 1, n), 1) = Incomplete

\* Decoding: a client whose frames are no commands and a bystander
DecodeClients == <<FailingRequests, BystanderRequests>>

InitDecode == handler = [c \in DOMAIN DecodeClients |-> "none"] /\ Init

NextDecode ==
    \/ \E c \in Conns : Accept(c)
    \/ \E c \in Conns : \E frame \in DecodeClients[c] : HandlerFrame(c, frame)
    \/ \E c \in Conns : SubscribeToChannel(c)
    \/ \E c \in Conns : SubscribeInsert(c)
    \/ \E c \in Conns : \E frame \in DecodeClients[c] : SubscribeFrame(c, frame)

SpecDecode == InitDecode /\ [][NextDecode]_vars

Finished == {c \in Conns : handler[c] \in {"done", "err", "panic"}}

\* The permits taken from the semaphore
PermitsInUse == MAX_CONNECTIONS - limit_connections

\* What C39 states of every state
C39_Inv ==
    \* a permit per running handler, and one more exactly while the
    \* listener is in Listener::accept
    /\ PermitsInUse - Cardinality(Running) \in {0, 1}
    /\ PermitsInUse - Cardinality(Running) = 1 <=>
           listener \in {"accept", "sleep"}
    \* a finished handler holds no sender of the drain channel and no
    \* receiver of a channel
    /\ \A c \in Finished :
           /\ c \notin shutdown_complete_tx
           /\ subscriptions[c] = <<>>
           /\ receiver[c] = None
           /\ \A k \in pub_sub : \A r \in Receivers(k) : r[1] # c
    \* so the drain waits for running handlers only
    /\ (server = "drain" /\ Running = {}) => shutdown_complete_tx = {}

\* What C39 states of one step
C39_Step ==
    \* the end of a handler task, however it ends, gives its permit back
    /\ \A c \in Conns :
           (c \in Running /\ handler'[c] \notin {"run", "subscribe"}) =>
               /\ handler'[c] \in {"done", "err", "panic"}
               /\ limit_connections' = limit_connections + 1
    \* a PUBLISH counts the receivers of running handlers only
    /\ \A c \in Conns :
           (Serves(c) /\ read'.frame = Request(<<PUBLISH, <<"c">>, <<"m">>>>))
               => Write(c, Integer(Cardinality(
                      {r \in Receivers(<<"c">>) : r[1] \in Running})))

\* C39: a handler task that ends, by the end of the stream, the shutdown,
\* an error or a panic, gives back its permit, drops its sender of the drain
\* channel and its subscriptions: the permits in use are those of the
\* running handlers and the one the listener holds while it is in accept,
\* and a finished handler neither holds up the shutdown nor is counted by a
\* PUBLISH
C39_Resources == [](C39_Inv) /\ [][C39_Step]_vars

\* C39: a subscribed client has ended and the other client has published
\* since and was answered 0, while the listener waits in accept with a
\* permit of its own
C39_Witness ==
    /\ handler[1] \in {"done", "err"}
    /\ <<"c">> \in pub_sub
    /\ handler[2] = "run"
    /\ read = [c |-> 2, frame |-> Request(<<PUBLISH, <<"c">>, <<"m">>>>)]
    /\ Wrote(2, Integer(0))
    /\ listener = "accept"
    /\ PermitsInUse = 2

\* The database with a key set, another set, and one of them set again
MaxSets == 3

\* Db::set, while fewer than MaxSets entries were made
SetShared(key, value, expire) ==
    /\ next_id < MaxSets
    /\ next_id' = next_id + 1
    /\ expirations' = SetExpirations(key, expire)
    /\ entries' = SetEntries(key, value, expire)
    /\ permit' = (permit \/ SetNotify(expire))
    /\ Quiet
    /\ UNCHANGED <<shutdown, pub_sub, notifying, purgeVars, serverVars,
                   connVars, handler, taskVars, subVars, now>>

InitShare == handler = <<>> /\ Init

NextShare ==
    \/ \E key \in Keys : \E value \in DbValues : \E expire \in DbExpires :
        SetShared(key, value, expire)
    \/ PurgeTask
    \/ PurgeSelect
    \/ Tick

SpecShare == InitShare /\ [][NextShare]_vars

\* Keys j and k are different, and their entries have the same deadline
Sharing(j, k) ==
    /\ j # k
    /\ j \in DOMAIN entries
    /\ k \in DOMAIN entries
    /\ IsSome(entries[j].expires_at)
    /\ entries[j].expires_at = entries[k].expires_at

\* The pair of expirations the entry of key k is to have
Pair(k) == <<Unwrap(entries[k].expires_at), entries[k].id>>

\* What C40 states of one step and two keys of one deadline
C40_Step(j, k) ==
    Sharing(j, k) =>
        \* a set of j takes the pair of j and leaves k its pair and entry
        /\ (j \in DOMAIN entries' /\ entries'[j].id # entries[j].id) =>
               /\ Pair(j) \notin DOMAIN expirations'
               /\ Pair(k) \in DOMAIN expirations'
               /\ expirations'[Pair(k)] = k
               /\ entries'[k] = entries[k]
        \* a scan of the background task at or after the deadline removes
        \* j and k and their pairs
        /\ (PurgeKeys /\ ~shutdown /\ Pair(j)[1] <= now) =>
               /\ j \notin DOMAIN entries'
               /\ k \notin DOMAIN entries'
               /\ Pair(j) \notin DOMAIN expirations'
               /\ Pair(k) \notin DOMAIN expirations'

====
